---------------------------- MODULE Spec2Model ----------------------------
(***************************************************************************)
(* Verification model of the request-retry engine                          *)
(* (codex-rs/codex-client/src/retry.rs), of the SSE event broadcaster     *)
(* (codex-rs/http-server/src/lib.rs) and of the session task runner        *)
(* (codex-rs/core/src/tasks/regular.rs).                                   *)
(*                                                                         *)
(* Durations are integers counted in microseconds.                        *)
(***************************************************************************)
EXTENDS Integers, Sequences, FiniteSets, TLC

VARIABLES
    \* ---- retry engine (run_with_retry) ----
    policy,        \* RetryPolicy {max_attempts, base_delay, retry_on}
    attempt,       \* loop variable of `for attempt in 0..=max_attempts`
    rpc,           \* position of run_with_retry
    issueCount,    \* number of op(req, attempt) invocations
    makeCount,     \* number of make_req() invocations
    sleepCount,    \* number of sleep(..) calls started
    lastErr,       \* the Err value the last op(..).await returned
    delay,         \* argument of the sleep in progress (or last slept)
    viaRetryAfter, \* the delay came from the Retry-After branch of retry_delay
    result,        \* what run_with_retry returned
    allRetryable,  \* history: every failure so far was of a retryable class
    failCount,     \* history: number of op(..).await that resolved to Err
    wakeCount,     \* history: number of sleeps that have fully elapsed
    slept,         \* history: total of the delays slept so far (kept by TraceSpec)
    only503,       \* history: every failure so far was an HTTP 503
    \* ---- backoff as a pure function ----
    boBase, boAttempt, boOut, boJitter,
    \* ---- event broadcaster (http-server) ----
    event_streams, \* AppState.event_streams: conversation id -> list of senders
    lock,          \* who holds the write half of the RwLock around event_streams
    chans,         \* the mpsc channels created by stream_events
    nextChan,      \* id of the next channel to be created
    ppc,           \* position of each conversation's producer loop
    pev,           \* the event the producer loop is broadcasting
    psenders,      \* the producer's local `senders` still to be sent to
    prune_after_send, \* the producer's local flag
    evCount,       \* number of events next_event() has yielded per conversation
    foundFull,     \* history: channels found full by a send of the current round
    foundClosed,   \* history: channels whose send failed in the current round
    \* ---- session task runner (one turn) ----
    task,          \* state of the task: Idle, Running, Completed, Failed, Cancelled
    inFlight,      \* the session holds the task as its in-flight task
    phase,         \* the provider call the turn is at: primary or fallback
    fallbackEnabled, \* a fallback provider is configured for the turn
    provider,      \* family of the provider the turn is configured with
    target,        \* provider and model the current call sequence goes to
    fallbacks,     \* history: number of fallback call sequences started
    primaryIssues, \* history: issue invocations made for the primary provider
    cancelRequested, \* the turn's cancellation signal has been raised
    cancelPos,     \* history: position of run_with_retry when it was raised
    \* ---- functions applied to drawn arguments ----
    env,           \* the process environment: variable name -> value
    call,          \* the function called and its arguments
    ret,           \* what the call returned
    \* ---- infinity command line client (cli) ----
    cli,           \* the command being run and the position it is at
    wire           \* history: the requests handed to the HTTP client

retryVars == <<policy, attempt, rpc, issueCount, makeCount, sleepCount,
               lastErr, delay, viaRetryAfter, result, allRetryable,
               failCount, wakeCount, slept, only503>>
backoffVars == <<boBase, boAttempt, boOut, boJitter>>
bcastVars == <<event_streams, lock, chans, nextChan, ppc, pev, psenders,
               prune_after_send, evCount, foundFull, foundClosed>>
taskVars == <<task, inFlight, phase, fallbackEnabled, provider, target,
              fallbacks, primaryIssues, cancelRequested, cancelPos>>
callVars == <<env, call, ret>>
cliVars == <<cli, wire>>
vars == <<retryVars, backoffVars, bcastVars, taskVars, callVars, cliVars>>

Min(a, b) == IF a <= b THEN a ELSE b

\* no variable set, no call made, nothing returned
NoEnv == << >>
NoCall == [fn |-> "none"]
NoRet == [tag |-> "none"]
NoCli == [pc |-> "none"]
\* no provider selected
NoTarget == [provider |-> "none", model |-> "none", effort |-> "none"]

(***************************************************************************)
(* Bounds of the model                                                     *)
(***************************************************************************)
MaxAttempts == 3
MaxBackoffAttempt == 9
\* channels created over a run, and events yielded over a run (all
\* conversations together)
MaxChans == 2
MaxEvents == 2
\* capacity of a subscriber channel: mpsc::channel::<String>(100) in the
\* source, scaled down so that a channel fills within MaxEvents events
ChannelCapacity == 1
\* longest run of filler words in a text given to is_refusal
MaxFiller == 101

(***************************************************************************)
(* http-server/src/lib.rs: event broadcaster                               *)
(***************************************************************************)
Convs == {"A", "B"}

NoHolder == [kind |-> "free", id |-> "-", chan |-> 0]
ProducerHolder(c) == [kind |-> "producer", id |-> c, chan |-> 0]
SubscribeHolder(k) == [kind |-> "stream_events", id |-> "-", chan |-> k]

NoEvent == [seq |-> 0, shutdown |-> FALSE]

\* a channel: state is unused | lock_wait (stream_events awaits the write
\* lock) | locked | registered; sent is everything pushed into the channel,
\* of which the receiver has taken the first rcvd; rxOpen is FALSE once
\* the receiver was dropped (the SSE client went away)
NoChan == [state |-> "unused", conv |-> "-", sent |-> << >>, rcvd |-> 0,
           rxOpen |-> FALSE, regAt |-> 0, joinedAfter |-> 0]

Queued(k) == Len(chans[k].sent) - chans[k].rcvd
IsFull(k) == Queued(k) >= ChannelCapacity
\* Sender::is_closed
IsClosed(k) == ~chans[k].rxOpen

HasEntry(c) == c \in DOMAIN event_streams

RECURSIVE Retain(_)
\* senders.retain(|sender| !sender.is_closed())
Retain(list) ==
    IF list = << >> THEN << >>
    ELSE IF IsClosed(Head(list)) THEN Retain(Tail(list))
         ELSE <<Head(list)>> \o Retain(Tail(list))

\* HashMap::remove
RemoveEntry(map, c) == [x \in (DOMAIN map) \ {c} |-> map[x]]
\* HashMap insert / overwrite
PutEntry(map, c, list) == [x \in (DOMAIN map) \cup {c} |-> IF x = c THEN list ELSE map[x]]

\* mutant: an entry left empty by `retain` stays in the map
RetainOrRemove_KeepsEmpty(map, c) ==
    IF c \notin DOMAIN map THEN map
    ELSE PutEntry(map, c, Retain(map[c]))

\* the map after `retain` and the removal of an entry left empty
RetainOrRemove(map, c) ==
    IF c \notin DOMAIN map THEN map
    ELSE IF Retain(map[c]) = << >> THEN RemoveEntry(map, c)
         ELSE PutEntry(map, c, Retain(map[c]))

TotalEvents == evCount["A"] + evCount["B"]

\* conversation.next_event().await yields Ok(event), which is serialized;
\* `let mut prune_after_send = false`
\* (yielded: the count of events the bound MaxEvents is applied to)
NextEventWithin(c, shutdown, yielded) ==
    /\ ppc[c] = "next_event"
    /\ yielded < MaxEvents
    /\ evCount' = [evCount EXCEPT ![c] = @ + 1]
    /\ pev' = [pev EXCEPT ![c] = [seq |-> evCount[c] + 1, shutdown |-> shutdown]]
    /\ prune_after_send' = [prune_after_send EXCEPT ![c] = FALSE]
    /\ ppc' = [ppc EXCEPT ![c] = "copy_wait"]
    /\ UNCHANGED <<event_streams, lock, chans, nextChan, psenders, foundFull, foundClosed>>
    /\ UNCHANGED <<retryVars, backoffVars, taskVars, callVars, cliVars>>

NextEventOk(c, shutdown) == NextEventWithin(c, shutdown, TotalEvents)
\* the same with MaxEvents events for each conversation
NextEventOkEach(c, shutdown) == NextEventWithin(c, shutdown, evCount[c])

\* conversation.next_event().await yields Err: break
NextEventErr(c) ==
    /\ ppc[c] = "next_event"
    /\ ppc' = [ppc EXCEPT ![c] = "final_wait"]
    /\ UNCHANGED <<event_streams, lock, chans, nextChan, pev, psenders,
                   prune_after_send, evCount, foundFull, foundClosed>>
    /\ UNCHANGED <<retryVars, backoffVars, taskVars, callVars, cliVars>>

\* event_streams.write().await is granted to the producer loop
ProducerAcquire(c) ==
    /\ ppc[c] \in {"copy_wait", "prune_wait", "final_wait"}
    /\ lock = NoHolder
    /\ lock' = ProducerHolder(c)
    /\ ppc' = [ppc EXCEPT ![c] =
                  CASE ppc[c] = "copy_wait" -> "copy_locked"
                    [] ppc[c] = "prune_wait" -> "prune_locked"
                    [] OTHER -> "final_locked"]
    /\ UNCHANGED <<event_streams, chans, nextChan, pev, psenders,
                   prune_after_send, evCount, foundFull, foundClosed>>
    /\ UNCHANGED <<retryVars, backoffVars, taskVars, callVars, cliVars>>

\* the iteration of the loop body is over (the locals event, senders and
\* prune_after_send go out of scope): `break` on ShutdownComplete, else
\* back to next_event()
EndRound(c) ==
    /\ ppc' = [ppc EXCEPT ![c] = IF pev[c].shutdown THEN "final_wait" ELSE "next_event"]
    /\ pev' = [pev EXCEPT ![c] = NoEvent]
    /\ psenders' = [psenders EXCEPT ![c] = << >>]
    /\ prune_after_send' = [prune_after_send EXCEPT ![c] = FALSE]
    /\ foundFull' = [foundFull EXCEPT ![c] = {}]
    /\ foundClosed' = [foundClosed EXCEPT ![c] = {}]

\* mutant: the write guard lives on after the block that clones the list
ProducerCopy_KeepsLock(c) ==
    /\ ppc[c] = "copy_locked"
    /\ event_streams' = RetainOrRemove(event_streams, c)
    /\ lock' = lock
    /\ IF c \in DOMAIN event_streams'
       THEN /\ psenders' = [psenders EXCEPT ![c] = event_streams'[c]]
            /\ ppc' = [ppc EXCEPT ![c] = "sending"]
            /\ UNCHANGED <<pev, prune_after_send, foundFull, foundClosed>>
       ELSE EndRound(c)
    /\ UNCHANGED <<chans, nextChan, evCount>>
    /\ UNCHANGED <<retryVars, backoffVars, taskVars, callVars, cliVars>>

\* lines 256-270: retain the open senders, drop an empty entry, clone the
\* list, release the lock
ProducerCopy(c) ==
    /\ ppc[c] = "copy_locked"
    /\ event_streams' = RetainOrRemove(event_streams, c)
    /\ lock' = NoHolder
    /\ IF c \in DOMAIN event_streams'
       THEN /\ psenders' = [psenders EXCEPT ![c] = event_streams'[c]]
            /\ ppc' = [ppc EXCEPT ![c] = "sending"]
            /\ UNCHANGED <<pev, prune_after_send, foundFull, foundClosed>>
       ELSE EndRound(c)
    /\ UNCHANGED <<chans, nextChan, evCount>>
    /\ UNCHANGED <<retryVars, backoffVars, taskVars, callVars, cliVars>>

\* mutant: a failed send ends the `for sender in senders` loop
CompleteSend_StopOnError(c, k) ==
    LET prune == prune_after_send[c] \/ IsClosed(k)
        rest == IF IsClosed(k) THEN << >> ELSE Tail(psenders[c])
        failed == IF IsClosed(k) THEN foundClosed[c] \cup {k} ELSE foundClosed[c]
    IN  /\ chans' = IF IsClosed(k) THEN chans
                    ELSE [chans EXCEPT ![k].sent = Append(@, pev[c].seq)]
        /\ IF rest # << >>
           THEN /\ psenders' = [psenders EXCEPT ![c] = rest]
                /\ prune_after_send' = [prune_after_send EXCEPT ![c] = prune]
                /\ ppc' = [ppc EXCEPT ![c] = "sending"]
                /\ foundClosed' = [foundClosed EXCEPT ![c] = failed]
                /\ UNCHANGED <<pev, foundFull>>
           ELSE IF prune
                THEN /\ psenders' = [psenders EXCEPT ![c] = rest]
                     /\ prune_after_send' = [prune_after_send EXCEPT ![c] = prune]
                     /\ ppc' = [ppc EXCEPT ![c] = "prune_wait"]
                     /\ foundClosed' = [foundClosed EXCEPT ![c] = failed]
                     /\ UNCHANGED <<pev, foundFull>>
                ELSE EndRound(c)

\* the outcome of sender.send(event_json).await on the head of psenders,
\* once the send can complete: Err when the receiver is gone, Ok after the
\* event was queued; then the next sender, or lines 276-289
CompleteSend(c, k) ==
    LET prune == prune_after_send[c] \/ IsClosed(k)
        rest == Tail(psenders[c])
        failed == IF IsClosed(k) THEN foundClosed[c] \cup {k} ELSE foundClosed[c]
    IN  /\ chans' = IF IsClosed(k) THEN chans
                    ELSE [chans EXCEPT ![k].sent = Append(@, pev[c].seq)]
        /\ IF rest # << >>
           THEN /\ psenders' = [psenders EXCEPT ![c] = rest]
                /\ prune_after_send' = [prune_after_send EXCEPT ![c] = prune]
                /\ ppc' = [ppc EXCEPT ![c] = "sending"]
                /\ foundClosed' = [foundClosed EXCEPT ![c] = failed]
                /\ UNCHANGED <<pev, foundFull>>
           ELSE IF prune
                THEN /\ psenders' = [psenders EXCEPT ![c] = rest]
                     /\ prune_after_send' = [prune_after_send EXCEPT ![c] = prune]
                     /\ ppc' = [ppc EXCEPT ![c] = "prune_wait"]
                     /\ foundClosed' = [foundClosed EXCEPT ![c] = failed]
                     /\ UNCHANGED <<pev, foundFull>>
                ELSE EndRound(c)

\* sender.send(..).await is polled: it completes at once, or finds the
\* channel full and suspends the producer loop
ProducerSend(c) ==
    /\ ppc[c] = "sending"
    /\ LET k == Head(psenders[c])
       IN  IF ~IsClosed(k) /\ IsFull(k)
           THEN /\ ppc' = [ppc EXCEPT ![c] = "send_blocked"]
                /\ foundFull' = [foundFull EXCEPT ![c] = @ \cup {k}]
                /\ UNCHANGED <<chans, pev, prune_after_send, psenders, foundClosed>>
           ELSE CompleteSend(c, k)
    /\ UNCHANGED <<event_streams, lock, nextChan, evCount>>
    /\ UNCHANGED <<retryVars, backoffVars, taskVars, callVars, cliVars>>

\* the suspended send is woken: the receiver took an item or was dropped
ProducerSendResume(c) ==
    /\ ppc[c] = "send_blocked"
    /\ LET k == Head(psenders[c])
       IN  /\ IsClosed(k) \/ ~IsFull(k)
           /\ CompleteSend(c, k)
    /\ UNCHANGED <<event_streams, lock, nextChan, evCount>>
    /\ UNCHANGED <<retryVars, backoffVars, taskVars, callVars, cliVars>>

\* mutant: the write guard of the prune is not released
ProducerPrune_KeepsLock(c) ==
    /\ ppc[c] = "prune_locked"
    /\ event_streams' = RetainOrRemove(event_streams, c)
    /\ lock' = lock
    /\ EndRound(c)
    /\ UNCHANGED <<chans, nextChan, evCount>>
    /\ UNCHANGED <<retryVars, backoffVars, taskVars, callVars, cliVars>>

\* lines 276-284: the prune after the sends
ProducerPrune(c) ==
    /\ ppc[c] = "prune_locked"
    /\ event_streams' = RetainOrRemove(event_streams, c)
    /\ lock' = NoHolder
    /\ EndRound(c)
    /\ UNCHANGED <<chans, nextChan, evCount>>
    /\ UNCHANGED <<retryVars, backoffVars, taskVars, callVars, cliVars>>

\* mutant: after the loop the entry stays in the map
ProducerFinal_KeepsEntry(c) ==
    /\ ppc[c] = "final_locked"
    /\ lock' = NoHolder
    /\ ppc' = [ppc EXCEPT ![c] = "done"]
    /\ UNCHANGED <<event_streams, chans, nextChan, pev, psenders, prune_after_send,
                   evCount, foundFull, foundClosed>>
    /\ UNCHANGED <<retryVars, backoffVars, taskVars, callVars, cliVars>>

\* mutant: after the loop the whole map is cleared
ProducerFinal_RemovesAll(c) ==
    /\ ppc[c] = "final_locked"
    /\ event_streams' = << >>
    /\ lock' = NoHolder
    /\ ppc' = [ppc EXCEPT ![c] = "done"]
    /\ UNCHANGED <<chans, nextChan, pev, psenders, prune_after_send, evCount,
                   foundFull, foundClosed>>
    /\ UNCHANGED <<retryVars, backoffVars, taskVars, callVars, cliVars>>

\* lines 294-295: after the loop, the entry is removed
ProducerFinal(c) ==
    /\ ppc[c] = "final_locked"
    /\ event_streams' = IF HasEntry(c) THEN RemoveEntry(event_streams, c)
                        ELSE event_streams
    /\ lock' = NoHolder
    /\ ppc' = [ppc EXCEPT ![c] = "done"]
    /\ UNCHANGED <<chans, nextChan, pev, psenders, prune_after_send, evCount, foundFull, foundClosed>>
    /\ UNCHANGED <<retryVars, backoffVars, taskVars, callVars, cliVars>>

\* stream_events, lines 429-448: the conversation exists, the channel is
\* created and the handler asks for the write lock
StreamEventsStart(c) ==
    /\ ppc[c] # "none"
    /\ nextChan <= MaxChans
    /\ chans' = [chans EXCEPT ![nextChan] =
                    [state |-> "lock_wait", conv |-> c, sent |-> << >>,
                     rcvd |-> 0, rxOpen |-> TRUE, regAt |-> 0,
                     joinedAfter |-> 0]]
    /\ nextChan' = nextChan + 1
    /\ UNCHANGED <<event_streams, lock, ppc, pev, psenders, prune_after_send,
                   evCount, foundFull, foundClosed>>
    /\ UNCHANGED <<retryVars, backoffVars, taskVars, callVars, cliVars>>

\* mutant: the lock is not granted while a round of the conversation is
\* sending
StreamEventsAcquire_AfterRound(k) ==
    /\ chans[k].state = "lock_wait"
    /\ lock = NoHolder
    /\ ppc[chans[k].conv] \notin {"sending", "send_blocked"}
    /\ lock' = SubscribeHolder(k)
    /\ chans' = [chans EXCEPT ![k].state = "locked"]
    /\ UNCHANGED <<event_streams, nextChan, ppc, pev, psenders,
                   prune_after_send, evCount, foundFull, foundClosed>>
    /\ UNCHANGED <<retryVars, backoffVars, taskVars, callVars, cliVars>>

\* event_streams.write().await is granted to the handler
StreamEventsAcquire(k) ==
    /\ chans[k].state = "lock_wait"
    /\ lock = NoHolder
    /\ lock' = SubscribeHolder(k)
    /\ chans' = [chans EXCEPT ![k].state = "locked"]
    /\ UNCHANGED <<event_streams, nextChan, ppc, pev, psenders,
                   prune_after_send, evCount, foundFull, foundClosed>>
    /\ UNCHANGED <<retryVars, backoffVars, taskVars, callVars, cliVars>>

\* the events of c whose broadcast had begun (the sender list had been
\* copied for them) or which found no entry: all events yielded, but for
\* one still waiting for its copy of the list
BroadcastBegun(c) ==
    IF ppc[c] \in {"copy_wait", "copy_locked"} THEN evCount[c] - 1 ELSE evCount[c]

\* mutant: the latest event is replayed to the new subscriber
StreamEventsRegister_Replay(k) ==
    /\ chans[k].state = "locked"
    /\ LET c == chans[k].conv
           old == IF HasEntry(c) THEN event_streams[c] ELSE << >>
       IN  /\ event_streams' = PutEntry(event_streams, c, Append(old, k))
           /\ chans' = [chans EXCEPT ![k].state = "registered",
                                     ![k].regAt = evCount[c],
                                     ![k].joinedAfter = BroadcastBegun(c),
                                     ![k].sent = IF BroadcastBegun(c) > 0
                                                 THEN <<BroadcastBegun(c)>>
                                                 ELSE << >>]
    /\ lock' = NoHolder
    /\ UNCHANGED <<nextChan, ppc, pev, psenders, prune_after_send, evCount,
                   foundFull, foundClosed>>
    /\ UNCHANGED <<retryVars, backoffVars, taskVars, callVars, cliVars>>

\* mutant: the sender is pushed twice
StreamEventsRegister_PushTwice(k) ==
    /\ chans[k].state = "locked"
    /\ LET c == chans[k].conv
           old == IF HasEntry(c) THEN event_streams[c] ELSE << >>
       IN  /\ event_streams' = PutEntry(event_streams, c, old \o <<k, k>>)
           /\ chans' = [chans EXCEPT ![k].state = "registered",
                                     ![k].regAt = evCount[c],
                                     ![k].joinedAfter = BroadcastBegun(c)]
    /\ lock' = NoHolder
    /\ UNCHANGED <<nextChan, ppc, pev, psenders, prune_after_send, evCount,
                   foundFull, foundClosed>>
    /\ UNCHANGED <<retryVars, backoffVars, taskVars, callVars, cliVars>>

\* line 449: streams.entry(conversation_id).or_default().push(tx)
StreamEventsRegister(k) ==
    /\ chans[k].state = "locked"
    /\ LET c == chans[k].conv
           old == IF HasEntry(c) THEN event_streams[c] ELSE << >>
       IN  /\ event_streams' = PutEntry(event_streams, c, Append(old, k))
           /\ chans' = [chans EXCEPT ![k].state = "registered",
                                     ![k].regAt = evCount[c],
                                     ![k].joinedAfter = BroadcastBegun(c)]
    /\ lock' = NoHolder
    /\ UNCHANGED <<nextChan, ppc, pev, psenders, prune_after_send, evCount, foundFull, foundClosed>>
    /\ UNCHANGED <<retryVars, backoffVars, taskVars, callVars, cliVars>>

\* the SSE stream takes the next item of its receiver
Recv(k) ==
    /\ chans[k].state = "registered"
    /\ chans[k].rxOpen
    /\ Queued(k) > 0
    /\ chans' = [chans EXCEPT ![k].rcvd = @ + 1]
    /\ UNCHANGED <<event_streams, lock, nextChan, ppc, pev, psenders,
                   prune_after_send, evCount, foundFull, foundClosed>>
    /\ UNCHANGED <<retryVars, backoffVars, taskVars, callVars, cliVars>>

\* the SSE client goes away: the stream and its receiver are dropped, and
\* with the receiver what was still queued
Disconnect(k) ==
    /\ chans[k].state = "registered"
    /\ chans[k].rxOpen
    /\ chans' = [chans EXCEPT ![k].rxOpen = FALSE, ![k].rcvd = Len(chans[k].sent)]
    /\ UNCHANGED <<event_streams, lock, nextChan, ppc, pev, psenders,
                   prune_after_send, evCount, foundFull, foundClosed>>
    /\ UNCHANGED <<retryVars, backoffVars, taskVars, callVars, cliVars>>

ProducerStep(c) ==
    \/ ProducerAcquire(c)
    \/ ProducerCopy(c)
    \/ ProducerSend(c)
    \/ ProducerSendResume(c)
    \/ ProducerPrune(c)
    \/ ProducerFinal(c)

\* the server after create_conversation has run once, for conversation
\* "A": its producer loop awaits the first event, nobody has subscribed
Init ==
    /\ event_streams = << >> /\ lock = NoHolder
    /\ chans = [k \in 1..MaxChans |-> NoChan] /\ nextChan = 1
    /\ ppc = [c \in Convs |-> IF c = "A" THEN "next_event" ELSE "none"]
    /\ pev = [c \in Convs |-> NoEvent]
    /\ psenders = [c \in Convs |-> << >>]
    /\ prune_after_send = [c \in Convs |-> FALSE]
    /\ evCount = [c \in Convs |-> 0] /\ foundFull = [c \in Convs |-> {}]
    /\ foundClosed = [c \in Convs |-> {}]
    /\ task = "Idle" /\ inFlight = FALSE /\ phase = "primary"
    /\ fallbackEnabled = FALSE /\ cancelRequested = FALSE /\ cancelPos = "none"
    /\ provider = "none" /\ target = NoTarget /\ fallbacks = 0 /\ primaryIssues = 0
    /\ policy = [max_attempts |-> 0, base_delay |-> 0, retry_429 |-> FALSE,
                 retry_5xx |-> FALSE, retry_transport |-> FALSE]
    /\ attempt = 0 /\ rpc = "idle" /\ issueCount = 0 /\ makeCount = 0
    /\ sleepCount = 0
    /\ lastErr = [kind |-> "none", status |-> 0,
                  headers |-> [present |-> FALSE, hasRA |-> FALSE, ra |-> ""],
                  body |-> [present |-> FALSE, json |-> FALSE, hasError |-> FALSE,
                            etype |-> "", ecode |-> ""]]
    /\ delay = 0 /\ viaRetryAfter = FALSE
    /\ result = [tag |-> "none", err |-> lastErr] /\ allRetryable = TRUE
    /\ failCount = 0 /\ wakeCount = 0 /\ slept = 0 /\ only503 = TRUE
    /\ boBase = 0 /\ boAttempt = 0 /\ boOut = -1 /\ boJitter = 1000
    /\ env = NoEnv /\ call = NoCall /\ ret = NoRet
    /\ cli = NoCli /\ wire = << >>

Next ==
    \/ \E c \in Convs, sd \in BOOLEAN : NextEventOk(c, sd)
    \/ \E c \in Convs : NextEventErr(c)
    \/ \E c \in Convs : ProducerStep(c)
    \/ \E c \in Convs : StreamEventsStart(c)
    \/ \E k \in 1..MaxChans : StreamEventsAcquire(k)
    \/ \E k \in 1..MaxChans : StreamEventsRegister(k)
    \/ \E k \in 1..MaxChans : Recv(k)
    \/ \E k \in 1..MaxChans : Disconnect(k)

Spec == Init /\ [][Next]_vars

\* Scheduling: the runtime keeps polling every task that can run, so a
\* producer loop or a stream_events handler that can take a step does, and
\* the write lock is granted in turn.  Subscribers other than the first
\* keep draining their streams; the first one may stop reading (a stalled
\* client).  Nothing obliges events to arrive or clients to connect.
FairSpec ==
    /\ Spec
    /\ \A c \in Convs : WF_vars(ProducerStep(c))
    /\ \A k \in 1..MaxChans : WF_vars(StreamEventsAcquire(k) \/ StreamEventsRegister(k))
    /\ \A k \in 2..MaxChans : WF_vars(Recv(k))

(***************************************************************************)
(* Inputs                                                                  *)
(***************************************************************************)
\* base delays, microseconds: 0, 1 ms, 1.5 ms, 5 ms, 100 ms, 200 ms, 70 s
BaseDelays == {0, 1000, 1500, 5000, 100000, 200000, 70000000}

\* attempt numbers given to backoff: the small ones, and some where
\* saturating_pow and saturating_mul saturate (201 = 1 + the ceiling of 200
\* request retries)
BackoffAttempts == (0..MaxBackoffAttempt) \cup {40, 65, 201}

\* rand::rng().random_range(0.9..1.1), in thousandths
Jitters == {900, 950, 1000, 1050, 1099}

\* response bodies of an Http error: Option<String>, seen through serde_json
NoBody == [present |-> FALSE, json |-> FALSE, hasError |-> FALSE, etype |-> "", ecode |-> ""]
JsonBody(t, c) == [present |-> TRUE, json |-> TRUE, hasError |-> TRUE, etype |-> t, ecode |-> c]
Bodies ==
    { NoBody,
      [present |-> TRUE, json |-> FALSE, hasError |-> FALSE, etype |-> "", ecode |-> ""],
      [present |-> TRUE, json |-> TRUE, hasError |-> FALSE, etype |-> "", ecode |-> ""],
      JsonBody("rate_limit_exceeded", ""),
      JsonBody("usage_limit_reached", ""),
      JsonBody("usage_not_included", ""),
      JsonBody("", "insufficient_quota"),
      JsonBody("", "quota_exceeded"),
      JsonBody("", "rate_limit_exceeded") }

\* headers of an Http error: Option<HeaderMap>, of which only Retry-After matters
NoHeaders == [present |-> FALSE, hasRA |-> FALSE, ra |-> ""]
OtherHeaders == [present |-> TRUE, hasRA |-> FALSE, ra |-> ""]
RetryAfter(s) == [present |-> TRUE, hasRA |-> TRUE, ra |-> s]
RetryAfterValues == {"0", "1.5", "30", "120", "500", "-1", "-0", "soon", "1e20", "inf", "NaN"}

HttpErr(s, h, b) == [kind |-> "Http", status |-> s, headers |-> h, body |-> b]
OtherErr(k) == [kind |-> k, status |-> 0, headers |-> NoHeaders, body |-> NoBody]
NoErr == OtherErr("none")

Errors ==
    { HttpErr(429, NoHeaders, b) : b \in Bodies }
    \cup { HttpErr(429, RetryAfter(s), NoBody) : s \in RetryAfterValues }
    \cup { HttpErr(429, OtherHeaders, NoBody),
           HttpErr(429, RetryAfter("30"), JsonBody("usage_limit_reached", "")) }
    \cup { HttpErr(s, h, NoBody) : s \in {400, 404, 500, 503}, h \in {NoHeaders, RetryAfter("30")} }
    \cup { OtherErr("Timeout"), OtherErr("Network"), OtherErr("Build"), OtherErr("Decode") }

Policies ==
    [ max_attempts : 0..MaxAttempts,
      base_delay : {1500, 100000, 70000000},
      retry_429 : BOOLEAN, retry_5xx : BOOLEAN, retry_transport : BOOLEAN ]

(***************************************************************************)
(* retry.rs                                                                *)
(***************************************************************************)
MAX_BACKOFF_MS == 120000

\* u64::MAX is beyond TLC's integers: saturation is modelled at 2^30, which
\* is above every value that `.min(MAX_BACKOFF_MS)` lets through.
U64Sat == 2^30

SatPow2(n) == IF n >= 30 THEN U64Sat ELSE 2^n

SatMul(a, b) ==
    IF a = 0 \/ b = 0 THEN 0
    ELSE IF a > U64Sat \div b THEN U64Sat ELSE a * b

IsServerError(status) == status >= 500 /\ status < 600

\* mutant: only error.type is looked at, error.code is forgotten
is_non_retryable_429_TypeOnly(body) ==
    body.present /\ body.json /\ body.hasError
    /\ body.etype \in {"usage_limit_reached", "usage_not_included"}

is_non_retryable_429(body) ==
    IF ~body.present THEN FALSE
    ELSE IF ~body.json THEN FALSE
    ELSE IF ~body.hasError THEN FALSE
    ELSE body.etype \in {"usage_limit_reached", "usage_not_included"}
         \/ body.ecode \in {"insufficient_quota", "quota_exceeded"}

\* mutant: the attempt check is off by one (attempt + 1 >= max_attempts)
should_retry_OffByOne(retry_on, err, att, max_attempts) ==
    IF att + 1 >= max_attempts THEN FALSE
    ELSE CASE err.kind = "Http" ->
                IF err.status = 429
                THEN retry_on.retry_429 /\ ~is_non_retryable_429(err.body)
                ELSE retry_on.retry_5xx /\ IsServerError(err.status)
           [] err.kind \in {"Timeout", "Network"} -> retry_on.retry_transport
           [] OTHER -> FALSE

\* mutant: the retry_429 flag is not consulted
should_retry_No429Flag(retry_on, err, att, max_attempts) ==
    IF att >= max_attempts THEN FALSE
    ELSE CASE err.kind = "Http" ->
                IF err.status = 429
                THEN ~is_non_retryable_429(err.body)
                ELSE retry_on.retry_5xx /\ IsServerError(err.status)
           [] err.kind \in {"Timeout", "Network"} -> retry_on.retry_transport
           [] OTHER -> FALSE

\* mutant: retry_5xx covers every non-429 status, client errors included
should_retry_AnyStatus(retry_on, err, att, max_attempts) ==
    IF att >= max_attempts THEN FALSE
    ELSE CASE err.kind = "Http" ->
                IF err.status = 429
                THEN retry_on.retry_429 /\ ~is_non_retryable_429(err.body)
                ELSE retry_on.retry_5xx
           [] err.kind \in {"Timeout", "Network"} -> retry_on.retry_transport
           [] OTHER -> FALSE

should_retry(retry_on, err, att, max_attempts) ==
    IF att >= max_attempts THEN FALSE
    ELSE CASE err.kind = "Http" ->
                IF err.status = 429
                THEN retry_on.retry_429 /\ ~is_non_retryable_429(err.body)
                ELSE retry_on.retry_5xx /\ IsServerError(err.status)
           [] err.kind \in {"Timeout", "Network"} -> retry_on.retry_transport
           [] OTHER -> FALSE

\* mutant: the exponent is attempt instead of attempt - 1
backoff_ExpOffByOne(base, att, j) ==
    IF att = 0 THEN base
    ELSE LET exp == SatPow2(att)
             millis == base \div 1000
             raw == Min(SatMul(millis, exp), MAX_BACKOFF_MS)
         IN  ((raw * j) \div 1000) * 1000

\* backoff(base, attempt) with the random jitter j (thousandths) made explicit
backoff(base, att, j) ==
    IF att = 0 THEN base
    ELSE LET exp == SatPow2(att - 1)
             millis == base \div 1000
             raw == Min(SatMul(millis, exp), MAX_BACKOFF_MS)
         IN  ((raw * j) \div 1000) * 1000

\* str::parse::<f64>() on the header values of RetryAfterValues
ParseF64(s) ==
    CASE s = "0"    -> [ok |-> TRUE, neg |-> FALSE, class |-> "finite", us |-> 0]
      [] s = "1.5"  -> [ok |-> TRUE, neg |-> FALSE, class |-> "finite", us |-> 1500000]
      [] s = "30"   -> [ok |-> TRUE, neg |-> FALSE, class |-> "finite", us |-> 30000000]
      [] s = "120"  -> [ok |-> TRUE, neg |-> FALSE, class |-> "finite", us |-> 120000000]
      [] s = "500"  -> [ok |-> TRUE, neg |-> FALSE, class |-> "finite", us |-> 500000000]
      [] s = "-1"   -> [ok |-> TRUE, neg |-> TRUE,  class |-> "finite", us |-> -1000000]
      [] s = "-0"   -> [ok |-> TRUE, neg |-> TRUE,  class |-> "finite", us |-> 0]
      [] s = "1e20" -> [ok |-> TRUE, neg |-> FALSE, class |-> "huge",   us |-> 0]
      [] s = "inf"  -> [ok |-> TRUE, neg |-> FALSE, class |-> "inf",    us |-> 0]
      [] s = "NaN"  -> [ok |-> TRUE, neg |-> FALSE, class |-> "nan",    us |-> 0]
      [] OTHER      -> [ok |-> FALSE, neg |-> FALSE, class |-> "none",  us |-> 0]

\* Option<Duration>, or the panic of Duration::from_secs_f64 on a value that
\* is not finite or overflows Duration
NoneDuration == [some |-> FALSE, panic |-> FALSE, us |-> 0]
SomeDuration(d) == [some |-> TRUE, panic |-> FALSE, us |-> d]
PanicDuration == [some |-> FALSE, panic |-> TRUE, us |-> 0]

retry_after_from_headers(headers) ==
    IF ~headers.hasRA THEN NoneDuration
    ELSE LET seconds == ParseF64(headers.ra)
         IN  IF ~seconds.ok THEN NoneDuration
             ELSE IF seconds.neg THEN NoneDuration
             ELSE IF seconds.class # "finite" THEN PanicDuration
             ELSE SomeDuration(seconds.us)

\* mutant: the backoff is computed from the loop index, so that the first
\* delay is the base itself
retry_delay_FromAttempt(pol, err, att, j) ==
    LET ra == IF err.kind = "Http" /\ err.status = 429 /\ err.headers.present
              THEN retry_after_from_headers(err.headers)
              ELSE NoneDuration
    IN  IF ra.panic THEN [panic |-> TRUE, us |-> 0, viaRA |-> TRUE]
        ELSE IF ra.some
             THEN [panic |-> FALSE, us |-> Min(ra.us, MAX_BACKOFF_MS * 1000), viaRA |-> TRUE]
             ELSE [panic |-> FALSE, us |-> backoff(pol.base_delay, att - 1, j), viaRA |-> FALSE]

retry_delay(pol, err, att, j) ==
    LET ra == IF err.kind = "Http" /\ err.status = 429 /\ err.headers.present
              THEN retry_after_from_headers(err.headers)
              ELSE NoneDuration
    IN  IF ra.panic THEN [panic |-> TRUE, us |-> 0, viaRA |-> TRUE]
        ELSE IF ra.some
             THEN [panic |-> FALSE, us |-> Min(ra.us, MAX_BACKOFF_MS * 1000), viaRA |-> TRUE]
             ELSE [panic |-> FALSE, us |-> backoff(pol.base_delay, att, j), viaRA |-> FALSE]

RetryOnOf(pol) ==
    [retry_429 |-> pol.retry_429, retry_5xx |-> pol.retry_5xx,
     retry_transport |-> pol.retry_transport]

\* the body carries one of the quota markers
QuotaMarker(body) ==
    \/ body.etype \in {"usage_limit_reached", "usage_not_included"}
    \/ body.ecode \in {"insufficient_quota", "quota_exceeded"}

Is429(err) == err.kind = "Http" /\ err.status = 429
Is5xx(err) == err.kind = "Http" /\ err.status >= 500 /\ err.status <= 599
IsTransport(err) == err.kind \in {"Timeout", "Network"}

\* the failure classes the policy flags make eligible for a retry
EligibleClass(pol, err) ==
    \/ IsTransport(err) /\ pol.retry_transport
    \/ Is5xx(err) /\ pol.retry_5xx
    \/ Is429(err) /\ pol.retry_429 /\ ~QuotaMarker(err.body)

NoResult == [tag |-> "none", err |-> NoErr]

IdlePolicy ==
    [max_attempts |-> 0, base_delay |-> 0, retry_429 |-> FALSE,
     retry_5xx |-> FALSE, retry_transport |-> FALSE]

\* mutant: the request is built for the first attempt only and reused
RetryIssue_RequestReused ==
    /\ rpc = "attempt"
    /\ attempt <= policy.max_attempts
    /\ makeCount' = IF attempt = 0 THEN makeCount + 1 ELSE makeCount
    /\ issueCount' = issueCount + 1
    /\ rpc' = "issued"
    /\ UNCHANGED <<policy, attempt, sleepCount, lastErr, delay, viaRetryAfter,
                   result, allRetryable, failCount, wakeCount, slept, only503>>
    /\ UNCHANGED <<backoffVars, bcastVars, taskVars, callVars, cliVars>>

\* let req = make_req(); op(req, attempt)   -- the call is dispatched
RetryIssue ==
    /\ rpc = "attempt"
    /\ attempt <= policy.max_attempts
    /\ makeCount' = makeCount + 1
    /\ issueCount' = issueCount + 1
    /\ rpc' = "issued"
    /\ UNCHANGED <<policy, attempt, sleepCount, lastErr, delay, viaRetryAfter,
                   result, allRetryable, failCount, wakeCount, slept, only503>>
    /\ UNCHANGED <<backoffVars, bcastVars, taskVars, callVars, cliVars>>

\* op(..).await resolves to Ok(resp)
RetryOk ==
    /\ rpc = "issued"
    /\ result' = [tag |-> "Ok", err |-> NoErr]
    /\ rpc' = "returned"
    /\ UNCHANGED <<policy, attempt, issueCount, makeCount, sleepCount, lastErr,
                   delay, viaRetryAfter, allRetryable, failCount, wakeCount,
                   slept, only503>>
    /\ UNCHANGED <<backoffVars, bcastVars, taskVars, callVars, cliVars>>

\* mutant: the sleep is started but not awaited, the loop goes straight on
\* to its next iteration
RetryErr_NoAwait(err, j) ==
    /\ rpc = "issued"
    /\ lastErr' = err
    /\ allRetryable' = (allRetryable /\ EligibleClass(policy, err))
    /\ failCount' = failCount + 1
    /\ only503' = (only503 /\ err.kind = "Http" /\ err.status = 503)
    /\ IF should_retry(RetryOnOf(policy), err, attempt, policy.max_attempts)
       THEN LET d == retry_delay(policy, err, attempt + 1, j)
            IN  IF d.panic
                THEN /\ rpc' = "panicked"
                     /\ UNCHANGED <<delay, viaRetryAfter, sleepCount, result, attempt>>
                ELSE /\ rpc' = "attempt"
                     /\ attempt' = attempt + 1
                     /\ delay' = d.us
                     /\ viaRetryAfter' = d.viaRA
                     /\ sleepCount' = sleepCount + 1
                     /\ UNCHANGED result
       ELSE /\ rpc' = "returned"
            /\ result' = [tag |-> "Err", err |-> err]
            /\ UNCHANGED <<delay, viaRetryAfter, sleepCount, attempt>>
    /\ UNCHANGED <<policy, issueCount, makeCount, wakeCount, slept>>
    /\ UNCHANGED <<backoffVars, bcastVars, taskVars, callVars, cliVars>>

\* op(..).await resolves to Err(err): either the guarded arm (sleep is
\* started on retry_delay(.., attempt + 1)) or `Err(err) => return Err(err)`
RetryErr(err, j) ==
    /\ rpc = "issued"
    /\ lastErr' = err
    /\ allRetryable' = (allRetryable /\ EligibleClass(policy, err))
    /\ failCount' = failCount + 1
    /\ only503' = (only503 /\ err.kind = "Http" /\ err.status = 503)
    /\ IF should_retry(RetryOnOf(policy), err, attempt, policy.max_attempts)
       THEN LET d == retry_delay(policy, err, attempt + 1, j)
            IN  IF d.panic
                THEN /\ rpc' = "panicked"
                     /\ UNCHANGED <<delay, viaRetryAfter, sleepCount, result>>
                ELSE /\ rpc' = "sleeping"
                     /\ delay' = d.us
                     /\ viaRetryAfter' = d.viaRA
                     /\ sleepCount' = sleepCount + 1
                     /\ UNCHANGED result
       ELSE /\ rpc' = "returned"
            /\ result' = [tag |-> "Err", err |-> err]
            /\ UNCHANGED <<delay, viaRetryAfter, sleepCount>>
    /\ UNCHANGED <<policy, attempt, issueCount, makeCount, wakeCount, slept>>
    /\ UNCHANGED <<backoffVars, bcastVars, taskVars, callVars, cliVars>>

\* the sleep ends; the for loop advances, or falls out to line 122
\* (track: whether the history variable slept records the delay)
Wake(track) ==
    /\ rpc = "sleeping"
    /\ attempt' = attempt + 1
    /\ wakeCount' = wakeCount + 1
    /\ slept' = IF track THEN slept + delay ELSE slept
    /\ IF attempt + 1 > policy.max_attempts
       THEN /\ rpc' = "returned"
            /\ result' = [tag |-> "Err", err |-> OtherErr("RetryLimit")]
       ELSE /\ rpc' = "attempt"
            /\ UNCHANGED result
    /\ UNCHANGED <<policy, issueCount, makeCount, sleepCount, lastErr, delay,
                   viaRetryAfter, allRetryable, failCount, only503>>
    /\ UNCHANGED <<backoffVars, bcastVars, taskVars, callVars, cliVars>>

RetryWake == Wake(FALSE)
TraceWake == Wake(TRUE)

RetryNext ==
    \/ RetryIssue
    \/ RetryOk
    \/ \E err \in Errors, j \in Jitters : RetryErr(err, j)
    \/ RetryWake

(***************************************************************************)
(* backoff applied to drawn inputs                                         *)
(***************************************************************************)
BackoffApply(j) ==
    /\ boOut = -1
    /\ boJitter' = j
    /\ boOut' = backoff(boBase, boAttempt, j)
    /\ UNCHANGED <<boBase, boAttempt>>
    /\ UNCHANGED <<retryVars, bcastVars, taskVars, callVars, cliVars>>

BackoffNext == \E j \in Jitters : BackoffApply(j)

RetrySpecInit ==
    /\ policy \in Policies
    /\ attempt = 0 /\ rpc = "attempt" /\ issueCount = 0 /\ makeCount = 0
    /\ sleepCount = 0 /\ lastErr = NoErr /\ delay = 0 /\ viaRetryAfter = FALSE
    /\ result = NoResult /\ allRetryable = TRUE
    /\ failCount = 0 /\ wakeCount = 0 /\ slept = 0 /\ only503 = TRUE
    /\ boBase = 0 /\ boAttempt = 0 /\ boOut = -1 /\ boJitter = 1000
    /\ env = NoEnv /\ call = NoCall /\ ret = NoRet
    /\ cli = NoCli /\ wire = << >>
    /\ event_streams = << >> /\ lock = NoHolder
    /\ chans = [k \in 1..MaxChans |-> NoChan] /\ nextChan = 1
    /\ ppc = [c \in Convs |-> "none"] /\ pev = [c \in Convs |-> NoEvent]
    /\ psenders = [c \in Convs |-> << >>]
    /\ prune_after_send = [c \in Convs |-> FALSE]
    /\ evCount = [c \in Convs |-> 0] /\ foundFull = [c \in Convs |-> {}]
    /\ foundClosed = [c \in Convs |-> {}]
    /\ task = "Idle" /\ inFlight = FALSE /\ phase = "primary"
    /\ fallbackEnabled = FALSE /\ cancelRequested = FALSE /\ cancelPos = "none"
    /\ provider = "none" /\ target = NoTarget /\ fallbacks = 0 /\ primaryIssues = 0

BackoffSpecInit ==
    /\ boBase \in BaseDelays
    /\ boAttempt \in BackoffAttempts
    /\ boOut = -1
    /\ boJitter = 1000
    /\ env = NoEnv /\ call = NoCall /\ ret = NoRet
    /\ cli = NoCli /\ wire = << >>
    /\ policy = IdlePolicy
    /\ attempt = 0 /\ rpc = "idle" /\ issueCount = 0 /\ makeCount = 0
    /\ sleepCount = 0 /\ lastErr = NoErr /\ delay = 0 /\ viaRetryAfter = FALSE
    /\ result = NoResult /\ allRetryable = TRUE
    /\ failCount = 0 /\ wakeCount = 0 /\ slept = 0 /\ only503 = TRUE
    /\ event_streams = << >> /\ lock = NoHolder
    /\ chans = [k \in 1..MaxChans |-> NoChan] /\ nextChan = 1
    /\ ppc = [c \in Convs |-> "none"] /\ pev = [c \in Convs |-> NoEvent]
    /\ psenders = [c \in Convs |-> << >>]
    /\ prune_after_send = [c \in Convs |-> FALSE]
    /\ evCount = [c \in Convs |-> 0] /\ foundFull = [c \in Convs |-> {}]
    /\ foundClosed = [c \in Convs |-> {}]
    /\ task = "Idle" /\ inFlight = FALSE /\ phase = "primary"
    /\ fallbackEnabled = FALSE /\ cancelRequested = FALSE /\ cancelPos = "none"
    /\ provider = "none" /\ target = NoTarget /\ fallbacks = 0 /\ primaryIssues = 0

RetrySpec == RetrySpecInit /\ [][RetryNext]_vars

(***************************************************************************)
(* run_with_retry with the time slept recorded: policies with a 100 ms    *)
(* base delay, and calls that answer 503, 500, a timeout or 404            *)
(***************************************************************************)
TraceErrors ==
    {HttpErr(503, NoHeaders, NoBody), HttpErr(500, NoHeaders, NoBody),
     OtherErr("Timeout"), HttpErr(404, NoHeaders, NoBody)}

TracePolicies == {p \in Policies : p.base_delay = 100000}

TraceSpecInit ==
    /\ policy \in TracePolicies
    /\ attempt = 0 /\ rpc = "attempt" /\ issueCount = 0 /\ makeCount = 0
    /\ sleepCount = 0 /\ lastErr = NoErr /\ delay = 0 /\ viaRetryAfter = FALSE
    /\ result = NoResult /\ allRetryable = TRUE
    /\ failCount = 0 /\ wakeCount = 0 /\ slept = 0 /\ only503 = TRUE
    /\ boBase = 0 /\ boAttempt = 0 /\ boOut = -1 /\ boJitter = 1000
    /\ env = NoEnv /\ call = NoCall /\ ret = NoRet
    /\ cli = NoCli /\ wire = << >>
    /\ event_streams = << >> /\ lock = NoHolder
    /\ chans = [k \in 1..MaxChans |-> NoChan] /\ nextChan = 1
    /\ ppc = [c \in Convs |-> "none"] /\ pev = [c \in Convs |-> NoEvent]
    /\ psenders = [c \in Convs |-> << >>]
    /\ prune_after_send = [c \in Convs |-> FALSE]
    /\ evCount = [c \in Convs |-> 0] /\ foundFull = [c \in Convs |-> {}]
    /\ foundClosed = [c \in Convs |-> {}]
    /\ task = "Idle" /\ inFlight = FALSE /\ phase = "primary"
    /\ fallbackEnabled = FALSE /\ cancelRequested = FALSE /\ cancelPos = "none"
    /\ provider = "none" /\ target = NoTarget /\ fallbacks = 0 /\ primaryIssues = 0

TraceNext ==
    \/ RetryIssue
    \/ RetryOk
    \/ \E err \in TraceErrors, j \in Jitters : RetryErr(err, j)
    \/ TraceWake

TraceSpec == TraceSpecInit /\ [][TraceNext]_vars

(***************************************************************************)
(* Session task runner: one turn, from its submission to its end state.    *)
(* RegularTask::run (core/src/tasks/regular.rs) hands the turn and its     *)
(* cancellation token to run_turn; the turn's provider calls go through    *)
(* run_with_retry.  The runner observes the cancellation signal            *)
(* immediately before each attempt of run_with_retry, which covers the     *)
(* first attempt of the primary call and of the fallback call.             *)
(***************************************************************************)
TaskStates == {"Idle", "Running", "Completed", "Failed", "Cancelled"}

\* provider families a turn is configured with: two with an entry in the
\* compatibility table and one without
Providers == {"openai", "anthropic", "xai"}
ConfiguredTarget(p) == [provider |-> p, model |-> "configured", effort |-> "configured"]

\* what the provider calls of a turn fail with: the errors of TraceErrors
\* and the rate-limit answer; the jitter is left at 1.0
TaskErrors ==
    TraceErrors \cup {HttpErr(429, NoHeaders, JsonBody("rate_limit_exceeded", ""))}
TaskJitters == {1000}
TerminalStates == {"Completed", "Failed", "Cancelled"}

\* cancellation is observed here: an attempt is about to be issued
AtSuspensionPoint == task = "Running" /\ rpc = "attempt"

\* a turn is submitted: RegularTask::run is entered and the primary provider
\* call starts
TaskSubmit ==
    /\ task = "Idle"
    /\ task' = "Running"
    /\ inFlight' = TRUE
    /\ phase' = "primary"
    /\ rpc' = "attempt"
    /\ target' = ConfiguredTarget(provider)
    /\ UNCHANGED <<fallbackEnabled, provider, fallbacks, primaryIssues,
                   cancelRequested, cancelPos>>
    /\ UNCHANGED <<policy, attempt, issueCount, makeCount, sleepCount, lastErr,
                   delay, viaRetryAfter, result, allRetryable, failCount,
                   wakeCount, slept, only503>>
    /\ UNCHANGED <<backoffVars, bcastVars, callVars, cliVars>>

\* the holder of the cancellation handle raises the signal
RequestCancel ==
    /\ task = "Running"
    /\ ~cancelRequested
    /\ cancelRequested' = TRUE
    /\ cancelPos' = rpc
    /\ UNCHANGED <<task, inFlight, phase, fallbackEnabled, provider, target,
                   fallbacks, primaryIssues>>
    /\ UNCHANGED <<retryVars, backoffVars, bcastVars, callVars, cliVars>>

\* mutant: the attempt is issued without looking at the signal
TaskIssue_NoPoll ==
    /\ task = "Running"
    /\ RetryIssue

\* no cancellation is observed: the attempt is issued
TaskIssue ==
    /\ task = "Running"
    /\ ~cancelRequested
    /\ RetryIssue

\* mutant: cancellation is also observed while a call is in flight
TaskObserveCancel_Preempt ==
    /\ task = "Running"
    /\ rpc \in {"attempt", "issued"}
    /\ cancelRequested
    /\ task' = "Cancelled"
    /\ inFlight' = FALSE
    /\ UNCHANGED <<phase, fallbackEnabled, provider, target, fallbacks,
                   primaryIssues, cancelRequested, cancelPos>>
    /\ UNCHANGED <<retryVars, backoffVars, bcastVars, callVars, cliVars>>

\* cancellation is observed at the suspension point: the task ends Cancelled
\* and run_with_retry is not resumed
TaskObserveCancel ==
    /\ AtSuspensionPoint
    /\ cancelRequested
    /\ task' = "Cancelled"
    /\ inFlight' = FALSE
    /\ UNCHANGED <<phase, fallbackEnabled, provider, target, fallbacks,
                   primaryIssues, cancelRequested, cancelPos>>
    /\ UNCHANGED <<retryVars, backoffVars, bcastVars, callVars, cliVars>>

\* the call in flight resolves, whatever the signal
TaskCallOk == task = "Running" /\ RetryOk
TaskCallErr(err, j) == task = "Running" /\ RetryErr(err, j)
\* the backoff sleep elapses
TaskWake == task = "Running" /\ RetryWake

\* the fallback the selector offers for the provider of the turn: the
\* entry of the compatibility table, when fallback is enabled
FallbackTable ==
    [p \in {"openai", "anthropic"} |->
        IF p = "openai"
        THEN [provider |-> "anthropic", model |-> "claude-opus-4-6", effort |-> "configured"]
        ELSE [provider |-> "openai", model |-> "gpt-5.3-codex", effort |-> "xhigh"]]

\* mutant: the table is consulted whether or not fallback is enabled
select_fallback_IgnoresEnabled(current_provider, enabled) ==
    IF current_provider \in DOMAIN FallbackTable
    THEN FallbackTable[current_provider]
    ELSE NoTarget

select_fallback(current_provider, enabled) ==
    IF enabled /\ current_provider \in DOMAIN FallbackTable
    THEN FallbackTable[current_provider]
    ELSE NoTarget

\* the primary call sequence ended in a way that asks for a fallback: a
\* rate-limit failure (429), or a response the selector takes for a refusal
FallbackAsked(refused) ==
    \/ result.tag = "Err" /\ Is429(result.err)
    \/ result.tag = "Ok" /\ refused

\* mutant: the outcome of a fallback call sequence can ask for a fallback too
TaskStartFallback_Chained(refused) ==
    /\ task = "Running"
    /\ rpc = "returned"
    /\ FallbackAsked(refused)
    /\ select_fallback(target.provider, fallbackEnabled) # NoTarget
    /\ phase' = "fallback"
    /\ target' = select_fallback(target.provider, fallbackEnabled)
    /\ fallbacks' = fallbacks + 1
    /\ primaryIssues' = IF phase = "primary" THEN issueCount ELSE primaryIssues
    /\ rpc' = "attempt"
    /\ attempt' = 0
    /\ result' = NoResult
    /\ UNCHANGED <<task, inFlight, fallbackEnabled, provider, cancelRequested, cancelPos>>
    /\ UNCHANGED <<policy, issueCount, makeCount, sleepCount, lastErr, delay,
                   viaRetryAfter, allRetryable, failCount, wakeCount, slept,
                   only503>>
    /\ UNCHANGED <<backoffVars, bcastVars, callVars, cliVars>>

\* the primary call sequence has returned and the selector substitutes the
\* fallback provider (at most once per turn): run_with_retry starts again
TaskStartFallback(refused) ==
    /\ task = "Running"
    /\ rpc = "returned"
    /\ phase = "primary"
    /\ FallbackAsked(refused)
    /\ select_fallback(provider, fallbackEnabled) # NoTarget
    /\ phase' = "fallback"
    /\ target' = select_fallback(provider, fallbackEnabled)
    /\ fallbacks' = fallbacks + 1
    /\ primaryIssues' = issueCount
    /\ rpc' = "attempt"
    /\ attempt' = 0
    /\ result' = NoResult
    /\ UNCHANGED <<task, inFlight, fallbackEnabled, provider, cancelRequested, cancelPos>>
    /\ UNCHANGED <<policy, issueCount, makeCount, sleepCount, lastErr, delay,
                   viaRetryAfter, allRetryable, failCount, wakeCount, slept,
                   only503>>
    /\ UNCHANGED <<backoffVars, bcastVars, callVars, cliVars>>

\* no fallback is due: the turn is at its fallback call sequence, none was
\* asked for, or the selector offers none
NoFallbackDue(refused) ==
    \/ phase = "fallback"
    \/ ~FallbackAsked(refused)
    \/ select_fallback(provider, fallbackEnabled) = NoTarget

\* mutant: the finished task stays the session's in-flight task
TaskFinish_StaysInFlight(refused) ==
    /\ task = "Running"
    /\ rpc = "returned"
    /\ NoFallbackDue(refused)
    /\ task' = IF result.tag = "Ok" THEN "Completed" ELSE "Failed"
    /\ UNCHANGED <<inFlight, phase, fallbackEnabled, provider, target, fallbacks,
                   primaryIssues, cancelRequested, cancelPos>>
    /\ UNCHANGED <<retryVars, backoffVars, bcastVars, callVars, cliVars>>

\* the turn's last provider call has returned: Completed on Ok, Failed on Err
TaskFinish(refused) ==
    /\ task = "Running"
    /\ rpc = "returned"
    /\ NoFallbackDue(refused)
    /\ task' = IF result.tag = "Ok" THEN "Completed" ELSE "Failed"
    /\ inFlight' = FALSE
    /\ UNCHANGED <<phase, fallbackEnabled, provider, target, fallbacks,
                   primaryIssues, cancelRequested, cancelPos>>
    /\ UNCHANGED <<retryVars, backoffVars, bcastVars, callVars, cliVars>>

TaskSpecInit ==
    /\ task = "Idle" /\ inFlight = FALSE /\ phase = "primary"
    /\ fallbackEnabled \in BOOLEAN
    /\ provider \in Providers /\ target = NoTarget
    /\ fallbacks = 0 /\ primaryIssues = 0
    /\ cancelRequested = FALSE /\ cancelPos = "none"
    /\ policy \in TracePolicies
    /\ attempt = 0 /\ rpc = "idle" /\ issueCount = 0 /\ makeCount = 0
    /\ sleepCount = 0 /\ lastErr = NoErr /\ delay = 0 /\ viaRetryAfter = FALSE
    /\ result = NoResult /\ allRetryable = TRUE
    /\ failCount = 0 /\ wakeCount = 0 /\ slept = 0 /\ only503 = TRUE
    /\ boBase = 0 /\ boAttempt = 0 /\ boOut = -1 /\ boJitter = 1000
    /\ env = NoEnv /\ call = NoCall /\ ret = NoRet
    /\ cli = NoCli /\ wire = << >>
    /\ event_streams = << >> /\ lock = NoHolder
    /\ chans = [k \in 1..MaxChans |-> NoChan] /\ nextChan = 1
    /\ ppc = [c \in Convs |-> "none"] /\ pev = [c \in Convs |-> NoEvent]
    /\ psenders = [c \in Convs |-> << >>]
    /\ prune_after_send = [c \in Convs |-> FALSE]
    /\ evCount = [c \in Convs |-> 0] /\ foundFull = [c \in Convs |-> {}]
    /\ foundClosed = [c \in Convs |-> {}]

TaskNext ==
    \/ TaskSubmit
    \/ RequestCancel
    \/ TaskIssue
    \/ TaskObserveCancel
    \/ TaskCallOk
    \/ \E err \in TaskErrors, j \in TaskJitters : TaskCallErr(err, j)
    \/ TaskWake
    \/ \E refused \in BOOLEAN : TaskStartFallback(refused)
    \/ \E refused \in BOOLEAN : TaskFinish(refused)

TaskSpec == TaskSpecInit /\ [][TaskNext]_vars
BackoffSpec == BackoffSpecInit /\ [][BackoffNext]_vars

(***************************************************************************)
(* Two conversations.  create_conversation has run for "A" and for "B";    *)
(* the first subscriber of A has stopped reading, its channel is full and  *)
(* the producer loop of A is suspended in the send of the next event to it *)
(***************************************************************************)
TwoConvInit ==
    /\ event_streams = [c \in {"A"} |-> <<1>>] /\ lock = NoHolder
    /\ chans = [k \in 1..MaxChans |->
                  IF k = 1
                  THEN [state |-> "registered", conv |-> "A",
                        sent |-> [i \in 1..ChannelCapacity |-> i], rcvd |-> 0,
                        rxOpen |-> TRUE, regAt |-> 0, joinedAfter |-> 0]
                  ELSE NoChan]
    /\ nextChan = 2
    /\ ppc = [c \in Convs |-> IF c = "A" THEN "send_blocked" ELSE "next_event"]
    /\ pev = [c \in Convs |-> IF c = "A"
                                THEN [seq |-> ChannelCapacity + 1, shutdown |-> FALSE]
                                ELSE NoEvent]
    /\ psenders = [c \in Convs |-> IF c = "A" THEN <<1>> ELSE << >>]
    /\ prune_after_send = [c \in Convs |-> FALSE]
    /\ evCount = [c \in Convs |-> IF c = "A" THEN ChannelCapacity + 1 ELSE 0]
    /\ foundFull = [c \in Convs |-> IF c = "A" THEN {1} ELSE {}]
    /\ foundClosed = [c \in Convs |-> {}]
    /\ task = "Idle" /\ inFlight = FALSE /\ phase = "primary"
    /\ fallbackEnabled = FALSE /\ cancelRequested = FALSE /\ cancelPos = "none"
    /\ provider = "none" /\ target = NoTarget /\ fallbacks = 0 /\ primaryIssues = 0
    /\ policy = IdlePolicy
    /\ attempt = 0 /\ rpc = "idle" /\ issueCount = 0 /\ makeCount = 0
    /\ sleepCount = 0 /\ lastErr = NoErr /\ delay = 0 /\ viaRetryAfter = FALSE
    /\ result = NoResult /\ allRetryable = TRUE
    /\ failCount = 0 /\ wakeCount = 0 /\ slept = 0 /\ only503 = TRUE
    /\ boBase = 0 /\ boAttempt = 0 /\ boOut = -1 /\ boJitter = 1000
    /\ env = NoEnv /\ call = NoCall /\ ret = NoRet
    /\ cli = NoCli /\ wire = << >>

TwoConvNext ==
    \/ \E c \in Convs, sd \in BOOLEAN : NextEventOkEach(c, sd)
    \/ \E c \in Convs : NextEventErr(c)
    \/ \E c \in Convs : ProducerStep(c)
    \/ \E c \in Convs : StreamEventsStart(c)
    \/ \E k \in 1..MaxChans : StreamEventsAcquire(k)
    \/ \E k \in 1..MaxChans : StreamEventsRegister(k)
    \/ \E k \in 1..MaxChans : Recv(k)
    \/ \E k \in 1..MaxChans : Disconnect(k)

TwoConvSpec == TwoConvInit /\ [][TwoConvNext]_vars

(***************************************************************************)
(* Refusal detection (codex-rs/core/src/refusal_fallback.rs).  A text is a *)
(* sequence of characters.                                                *)
(***************************************************************************)
REFUSAL_WORD_LIMIT == 100

REFUSAL_INDICATORS ==
    {<<"s", "o", "r", "r", "y">>,
     <<"c", "a", "n", "'", "t", " ", "h", "e", "l", "p">>,
     <<"c", "a", "n", "n", "o", "t", " ", "h", "e", "l", "p">>,
     <<"i", "'", "m", " ", "u", "n", "a", "b", "l", "e">>,
     <<"i", " ", "a", "m", " ", "u", "n", "a", "b", "l", "e">>,
     <<"n", "o", "t", " ", "a", "b", "l", "e", " ", "t", "o">>,
     <<"i", " ", "c", "a", "n", "n", "o", "t">>,
     <<"i", " ", "c", "a", "n", "'", "t">>,
     <<"u", "n", "a", "b", "l", "e", " ", "t", "o", " ", "a", "s", "s", "i", "s", "t">>,
     <<"c", "a", "n", "n", "o", "t", " ", "a", "s", "s", "i", "s", "t">>,
     <<"c", "a", "n", "'", "t", " ", "a", "s", "s", "i", "s", "t">>,
     <<"w", "o", "n", "'", "t", " ", "b", "e", " ", "a", "b", "l", "e">>,
     <<"w", "i", "l", "l", " ", "n", "o", "t", " ", "b", "e", " ", "a", "b", "l", "e">>,
     <<"a", "p", "o", "l", "o", "g", "i", "z", "e">>,
     <<"u", "n", "f", "o", "r", "t", "u", "n", "a", "t", "e", "l", "y">>,
     <<"i", "'", "m", " ", "n", "o", "t", " ", "a", "b", "l", "e">>,
     <<"i", " ", "a", "m", " ", "n", "o", "t", " ", "a", "b", "l", "e">>,
     <<"d", "e", "c", "l", "i", "n", "e">>,
     <<"r", "e", "f", "u", "s", "e">>}

UpperCase == <<"A", "B", "C", "D", "E", "F", "G", "H", "I", "J", "K", "L", "M", "N", "O", "P", "Q", "R", "S", "T", "U", "V", "W", "X", "Y", "Z">>
LowerCase == <<"a", "b", "c", "d", "e", "f", "g", "h", "i", "j", "k", "l", "m", "n", "o", "p", "q", "r", "s", "t", "u", "v", "w", "x", "y", "z">>

\* char::is_whitespace
is_whitespace(ch) == ch \in {" ", "\n", "\t"}

\* str::split_whitespace().count(): the maximal runs of non-whitespace
split_whitespace_count(text) ==
    Cardinality({i \in 1..Len(text) :
                    /\ ~is_whitespace(text[i])
                    /\ (i = 1 \/ is_whitespace(text[i - 1]))})

\* str::to_lowercase
to_lowercase(text) ==
    [i \in 1..Len(text) |->
        IF \E n \in 1..Len(UpperCase) : UpperCase[n] = text[i]
        THEN LowerCase[CHOOSE n \in 1..Len(UpperCase) : UpperCase[n] = text[i]]
        ELSE text[i]]

\* str::contains
contains(hay, needle) ==
    \E i \in 1..(Len(hay) - Len(needle) + 1) :
        \A j \in 1..Len(needle) : hay[i + j - 1] = needle[j]

\* mutant: a text of exactly REFUSAL_WORD_LIMIT words can be a refusal
is_refusal_LimitExclusive(response_text, had_tool_calls) ==
    IF had_tool_calls THEN FALSE
    ELSE IF split_whitespace_count(response_text) > REFUSAL_WORD_LIMIT THEN FALSE
    ELSE LET lower == to_lowercase(response_text)
         IN  \E indicator \in REFUSAL_INDICATORS : contains(lower, indicator)

is_refusal(response_text, had_tool_calls) ==
    IF had_tool_calls THEN FALSE
    ELSE IF split_whitespace_count(response_text) >= REFUSAL_WORD_LIMIT THEN FALSE
    ELSE LET lower == to_lowercase(response_text)
         IN  \E indicator \in REFUSAL_INDICATORS : contains(lower, indicator)

\* the texts given to is_refusal: an opening followed by the word "word"
\* repeated, up to MaxFiller times
RefusalOpenings ==
    {<<>>,
     <<"S", "o", "r", "r", "y", " ">>,
     <<"I", "'", "m", " ", "S", "O", "R", "R", "Y", ",", " ", "b", "u", "t", " ", "n", "o", ".", " ">>,
     <<"I", " ", "c", "a", "n", "n", "o", "t", " ">>,
     <<"I", " ", " ", "c", "a", "n", "n", "o", "t", " ">>,
     <<"I", " ", "c", "a", "n", " ", "n", "o", "t", " ", "h", "e", "l", "p", " ">>,
     <<"H", "e", "r", "e", " ", "i", "s", " ", "t", "h", "e", " ", "f", "i", "x", " ">>,
     <<"U", "n", "f", "o", "r", "t", "u", "n", "a", "t", "e", "l", "y", "\n">>,
     <<"W", "e", " ", "d", "e", "c", "l", "i", "n", "e", "d", " ", "i", "t", " ">>,
     <<"D", "o", "n", "e", "!", " ">>,
     <<"I", " ", "W", "i", "l", "l", " ", "N", "o", "t", " ", "B", "e", " ", "A", "b", "l", "e", " ", "t", "o", " ">>}

FillerWord == <<"w", "o", "r", "d", " ">>
Repeat(unit, n) ==
    [i \in 1..(n * Len(unit)) |-> unit[((i - 1) % Len(unit)) + 1]]
FillerCounts == {0, 1} \cup ((MaxFiller - 5)..MaxFiller)
RefusalTexts ==
    {opening \o Repeat(FillerWord, n) : opening \in RefusalOpenings, n \in FillerCounts}

IsRefusalApply ==
    /\ call.fn = "is_refusal"
    /\ ret = NoRet
    /\ ret' = [tag |-> "bool", val |-> is_refusal(call.text, call.had_tool_calls)]
    /\ UNCHANGED <<env, call>>
    /\ UNCHANGED <<retryVars, backoffVars, bcastVars, taskVars, cliVars>>

RefusalSpecInit ==
    /\ call \in [fn : {"is_refusal"}, text : RefusalTexts, had_tool_calls : BOOLEAN]
    /\ env = NoEnv /\ ret = NoRet
    /\ cli = NoCli /\ wire = << >>
    /\ event_streams = << >> /\ lock = NoHolder
    /\ chans = [k \in 1..MaxChans |-> NoChan] /\ nextChan = 1
    /\ ppc = [c \in Convs |-> "none"] /\ pev = [c \in Convs |-> NoEvent]
    /\ psenders = [c \in Convs |-> << >>]
    /\ prune_after_send = [c \in Convs |-> FALSE]
    /\ evCount = [c \in Convs |-> 0] /\ foundFull = [c \in Convs |-> {}]
    /\ foundClosed = [c \in Convs |-> {}]
    /\ task = "Idle" /\ inFlight = FALSE /\ phase = "primary"
    /\ fallbackEnabled = FALSE /\ cancelRequested = FALSE /\ cancelPos = "none"
    /\ provider = "none" /\ target = NoTarget /\ fallbacks = 0 /\ primaryIssues = 0
    /\ policy = IdlePolicy
    /\ attempt = 0 /\ rpc = "idle" /\ issueCount = 0 /\ makeCount = 0
    /\ sleepCount = 0 /\ lastErr = NoErr /\ delay = 0 /\ viaRetryAfter = FALSE
    /\ result = NoResult /\ allRetryable = TRUE
    /\ failCount = 0 /\ wakeCount = 0 /\ slept = 0 /\ only503 = TRUE
    /\ boBase = 0 /\ boAttempt = 0 /\ boOut = -1 /\ boJitter = 1000

RefusalSpec == RefusalSpecInit /\ [][IsRefusalApply]_vars

(***************************************************************************)
(* Credentials and retry limits of a provider definition                   *)
(* (codex-rs/core/src/model_provider_info.rs) and the fallback              *)
(* configuration (codex-rs/core/src/refusal_fallback.rs).  The process      *)
(* environment maps a variable name to its value: unset, a value that is   *)
(* not valid Unicode, or a text (a sequence of characters).                 *)
(***************************************************************************)
None == [some |-> FALSE]
Some(v) == [some |-> TRUE, val |-> v]

Unset == [kind |-> "unset"]
NotUnicode == [kind |-> "not_unicode"]
Text(t) == [kind |-> "text", text |-> t]

EnvVarNames ==
    {"OPENROUTER_API_KEY", "ANTHROPIC_OAUTH_TOKEN", "ANTHROPIC_API_KEY", "XAI_API_KEY"}

EnvValues ==
    {Unset, NotUnicode, Text(<< >>), Text(<<" ", "\t">>),
     Text(<<"s", "k", "-", "a">>), Text(<<" ", "s", "k", "-", "b", "\n">>)}

Envs == [EnvVarNames -> EnvValues]

\* std::env::var(var).ok(): None when the variable is unset or its value is
\* not valid Unicode
env_var_ok(e, var) ==
    IF e[var].kind = "text" THEN Some(e[var].text) ELSE None

\* str::trim: the text between its first and its last non-whitespace
\* character
trim(s) ==
    LET keep == {i \in 1..Len(s) : ~is_whitespace(s[i])}
    IN  IF keep = {} THEN << >>
        ELSE SubSeq(s, CHOOSE i \in keep : \A k \in keep : i <= k,
                       CHOOSE i \in keep : \A k \in keep : k <= i)

\* mutant: the value is tested for emptiness without being trimmed
openrouter_fallback_available_NoTrim(e) ==
    LET v == env_var_ok(e, "OPENROUTER_API_KEY")
    IN  v.some /\ v.val # << >>

\* openrouter_fallback_available
openrouter_fallback_available(e) ==
    LET v == env_var_ok(e, "OPENROUTER_API_KEY")
    IN  v.some /\ trim(v.val) # << >>

\* impl Default for RefusalFallbackConfig
RefusalFallbackConfig_default(e) ==
    LET available == openrouter_fallback_available(e)
    IN  [tag |-> "RefusalFallbackConfig",
         enabled |-> available,
         fallback_model |-> "x-ai/grok-code-fast-1",
         fallback_provider |->
             IF available THEN Some("OpenRouter (Fallback)") ELSE None]

\* read_env_value
read_env_value(e, var) ==
    LET v == env_var_ok(e, var)
    IN  IF v.some /\ trim(v.val) # << >> THEN Some(trim(v.val)) ELSE None

ANTHROPIC_API_KEY_ENV_VAR == "ANTHROPIC_API_KEY"
ANTHROPIC_OAUTH_TOKEN_ENV_VAR == "ANTHROPIC_OAUTH_TOKEN"

EnvVarError(var) == [tag |-> "Err", err |-> "EnvVar", var |-> var]
OkKey(k) == [tag |-> "Ok", key |-> k]

\* The env_key of a provider definition: the built-in OpenAI definition
\* declares none, the others name their variable
EnvKeys == {None} \cup {Some(v) : v \in EnvVarNames}

\* mutant: the plain API key is preferred to the OAuth token
api_key_PlainFirst(e, env_key) ==
    IF ~env_key.some THEN OkKey(None)
    ELSE IF env_key.val \in {ANTHROPIC_API_KEY_ENV_VAR, ANTHROPIC_OAUTH_TOKEN_ENV_VAR}
    THEN LET plain == read_env_value(e, ANTHROPIC_API_KEY_ENV_VAR)
             token == IF plain.some THEN plain
                      ELSE read_env_value(e, ANTHROPIC_OAUTH_TOKEN_ENV_VAR)
         IN  IF token.some THEN OkKey(token)
             ELSE EnvVarError("ANTHROPIC_OAUTH_TOKEN or ANTHROPIC_API_KEY")
    ELSE LET value == read_env_value(e, env_key.val)
         IN  IF value.some THEN OkKey(value) ELSE EnvVarError(env_key.val)

\* ModelProviderInfo::api_key
api_key(e, env_key) ==
    IF ~env_key.some THEN OkKey(None)
    ELSE IF env_key.val \in {ANTHROPIC_API_KEY_ENV_VAR, ANTHROPIC_OAUTH_TOKEN_ENV_VAR}
    THEN LET oauth == read_env_value(e, ANTHROPIC_OAUTH_TOKEN_ENV_VAR)
             token == IF oauth.some THEN oauth
                      ELSE read_env_value(e, ANTHROPIC_API_KEY_ENV_VAR)
         IN  IF token.some THEN OkKey(token)
             ELSE EnvVarError("ANTHROPIC_OAUTH_TOKEN or ANTHROPIC_API_KEY")
    ELSE LET value == read_env_value(e, env_key.val)
         IN  IF value.some THEN OkKey(value) ELSE EnvVarError(env_key.val)

\* The environment of the process is changed from outside the two functions
EnvSet(var, value) ==
    /\ env \in Envs
    /\ env[var] # value
    /\ env' = [env EXCEPT ![var] = value]
    /\ UNCHANGED <<call, ret>>
    /\ UNCHANGED <<retryVars, backoffVars, bcastVars, taskVars, cliVars>>

\* RefusalFallbackConfig::default()
DefaultConfigCall ==
    /\ env \in Envs
    /\ call' = [fn |-> "RefusalFallbackConfig::default"]
    /\ ret' = RefusalFallbackConfig_default(env)
    /\ UNCHANGED env
    /\ UNCHANGED <<retryVars, backoffVars, bcastVars, taskVars, cliVars>>

\* provider.api_key(); the call record keeps what the previous call for the
\* same definition returned
ApiKeyCall(env_key) ==
    /\ env \in Envs
    /\ call' = [fn |-> "api_key", env_key |-> env_key,
                prev |-> IF call.fn = "api_key" /\ call.env_key = env_key
                         THEN ret ELSE NoRet]
    /\ ret' = api_key(env, env_key)
    /\ UNCHANGED env
    /\ UNCHANGED <<retryVars, backoffVars, bcastVars, taskVars, cliVars>>

CredSpecInit ==
    /\ env \in Envs
    /\ call = NoCall /\ ret = NoRet
    /\ cli = NoCli /\ wire = << >>
    /\ event_streams = << >> /\ lock = NoHolder
    /\ chans = [k \in 1..MaxChans |-> NoChan] /\ nextChan = 1
    /\ ppc = [c \in Convs |-> "none"] /\ pev = [c \in Convs |-> NoEvent]
    /\ psenders = [c \in Convs |-> << >>]
    /\ prune_after_send = [c \in Convs |-> FALSE]
    /\ evCount = [c \in Convs |-> 0] /\ foundFull = [c \in Convs |-> {}]
    /\ foundClosed = [c \in Convs |-> {}]
    /\ task = "Idle" /\ inFlight = FALSE /\ phase = "primary"
    /\ fallbackEnabled = FALSE /\ cancelRequested = FALSE /\ cancelPos = "none"
    /\ provider = "none" /\ target = NoTarget /\ fallbacks = 0 /\ primaryIssues = 0
    /\ policy = IdlePolicy
    /\ attempt = 0 /\ rpc = "idle" /\ issueCount = 0 /\ makeCount = 0
    /\ sleepCount = 0 /\ lastErr = NoErr /\ delay = 0 /\ viaRetryAfter = FALSE
    /\ result = NoResult /\ allRetryable = TRUE
    /\ failCount = 0 /\ wakeCount = 0 /\ slept = 0 /\ only503 = TRUE
    /\ boBase = 0 /\ boAttempt = 0 /\ boOut = -1 /\ boJitter = 1000

CredNext ==
    \/ \E var \in EnvVarNames, value \in EnvValues : EnvSet(var, value)
    \/ DefaultConfigCall
    \/ \E env_key \in EnvKeys : ApiKeyCall(env_key)

CredSpec == CredSpecInit /\ [][CredNext]_vars

(***************************************************************************)
(* Effective retry limits of a provider definition                         *)
(* (codex-rs/core/src/model_provider_info.rs)                               *)
(***************************************************************************)
DEFAULT_STREAM_MAX_RETRIES == 60
DEFAULT_REQUEST_MAX_RETRIES == 100
MAX_STREAM_MAX_RETRIES == 100
MAX_REQUEST_MAX_RETRIES == 200

\* The values of request_max_retries and of stream_max_retries in a
\* definition: absent, or a count
ConfiguredRetries ==
    {None} \cup {Some(n) : n \in {0, 1, 59, 60, 61, 99, 100, 101, 199, 200, 201, 1000000}}

unwrap_or(opt, default) == IF opt.some THEN opt.val ELSE default

\* mutant: the configured value is used as it is
request_max_retries_Unclamped(def) ==
    unwrap_or(def.request_max_retries, DEFAULT_REQUEST_MAX_RETRIES)

\* ModelProviderInfo::request_max_retries
request_max_retries(def) ==
    Min(unwrap_or(def.request_max_retries, DEFAULT_REQUEST_MAX_RETRIES),
        MAX_REQUEST_MAX_RETRIES)

\* ModelProviderInfo::stream_max_retries
stream_max_retries(def) ==
    Min(unwrap_or(def.stream_max_retries, DEFAULT_STREAM_MAX_RETRIES),
        MAX_STREAM_MAX_RETRIES)

\* The retry configuration built by ModelProviderInfo::to_api_provider
to_api_provider_retry(def) ==
    [max_attempts |-> request_max_retries(def),
     base_delay |-> 200000,
     retry_429 |-> TRUE, retry_5xx |-> TRUE, retry_transport |-> TRUE]

\* provider.request_max_retries() and provider.stream_max_retries()
EffectiveLimitsCall ==
    /\ call.fn = "definition"
    /\ ret = NoRet
    /\ ret' = [tag |-> "limits",
               request_max_retries |-> request_max_retries(call),
               stream_max_retries |-> stream_max_retries(call)]
    /\ UNCHANGED <<env, call>>
    /\ UNCHANGED <<retryVars, backoffVars, bcastVars, taskVars, cliVars>>

\* provider.to_api_provider(auth_mode)
ToApiProviderCall ==
    /\ call.fn = "definition"
    /\ ret = NoRet
    /\ ret' = [tag |-> "ApiProvider", retry |-> to_api_provider_retry(call)]
    /\ UNCHANGED <<env, call>>
    /\ UNCHANGED <<retryVars, backoffVars, bcastVars, taskVars, cliVars>>

LimitsSpecInit ==
    /\ call \in [fn : {"definition"}, request_max_retries : ConfiguredRetries,
                 stream_max_retries : ConfiguredRetries]
    /\ env = NoEnv /\ ret = NoRet
    /\ cli = NoCli /\ wire = << >>
    /\ event_streams = << >> /\ lock = NoHolder
    /\ chans = [k \in 1..MaxChans |-> NoChan] /\ nextChan = 1
    /\ ppc = [c \in Convs |-> "none"] /\ pev = [c \in Convs |-> NoEvent]
    /\ psenders = [c \in Convs |-> << >>]
    /\ prune_after_send = [c \in Convs |-> FALSE]
    /\ evCount = [c \in Convs |-> 0] /\ foundFull = [c \in Convs |-> {}]
    /\ foundClosed = [c \in Convs |-> {}]
    /\ task = "Idle" /\ inFlight = FALSE /\ phase = "primary"
    /\ fallbackEnabled = FALSE /\ cancelRequested = FALSE /\ cancelPos = "none"
    /\ provider = "none" /\ target = NoTarget /\ fallbacks = 0 /\ primaryIssues = 0
    /\ policy = IdlePolicy
    /\ attempt = 0 /\ rpc = "idle" /\ issueCount = 0 /\ makeCount = 0
    /\ sleepCount = 0 /\ lastErr = NoErr /\ delay = 0 /\ viaRetryAfter = FALSE
    /\ result = NoResult /\ allRetryable = TRUE
    /\ failCount = 0 /\ wakeCount = 0 /\ slept = 0 /\ only503 = TRUE
    /\ boBase = 0 /\ boAttempt = 0 /\ boOut = -1 /\ boJitter = 1000

LimitsNext == EffectiveLimitsCall \/ ToApiProviderCall

LimitsSpec == LimitsSpecInit /\ [][LimitsNext]_vars

(***************************************************************************)
(* A turn against a provider: the credential of the definition is resolved *)
(* and, when that succeeds, the request goes through run_with_retry with   *)
(* the policy of the definition.                                           *)
(***************************************************************************)
TurnEnvValues == {Unset, Text(<<" ", "\t">>), Text(<<"s", "k", "-", "a">>)}

TurnEnvs ==
    {e \in [EnvVarNames -> TurnEnvValues] : e["OPENROUTER_API_KEY"] = Unset}

TurnEnvKeys == {None, Some(ANTHROPIC_API_KEY_ENV_VAR), Some("XAI_API_KEY")}

TurnPolicies ==
    [ max_attempts : 0..MaxAttempts, base_delay : {200000},
      retry_429 : {TRUE}, retry_5xx : {TRUE}, retry_transport : {TRUE} ]

\* mutant: the request is sent whether or not the credential was resolved
TurnResolveCredential_Unchecked(env_key) ==
    /\ call = NoCall
    /\ rpc = "idle"
    /\ call' = [fn |-> "turn", env_key |-> env_key]
    /\ ret' = api_key(env, env_key)
    /\ rpc' = "attempt"
    /\ UNCHANGED <<env, policy, attempt, issueCount, makeCount, sleepCount,
                   lastErr, delay, viaRetryAfter, result, allRetryable,
                   failCount, wakeCount, slept, only503>>
    /\ UNCHANGED <<backoffVars, bcastVars, taskVars, cliVars>>

\* let api_key = provider.api_key()?;  then run_with_retry(policy, ..)
TurnResolveCredential(env_key) ==
    /\ call = NoCall
    /\ rpc = "idle"
    /\ call' = [fn |-> "turn", env_key |-> env_key]
    /\ ret' = api_key(env, env_key)
    /\ rpc' = IF api_key(env, env_key).tag = "Ok" THEN "attempt" ELSE "idle"
    /\ UNCHANGED <<env, policy, attempt, issueCount, makeCount, sleepCount,
                   lastErr, delay, viaRetryAfter, result, allRetryable,
                   failCount, wakeCount, slept, only503>>
    /\ UNCHANGED <<backoffVars, bcastVars, taskVars, cliVars>>

TurnSpecInit ==
    /\ env \in TurnEnvs
    /\ call = NoCall /\ ret = NoRet
    /\ cli = NoCli /\ wire = << >>
    /\ policy \in TurnPolicies
    /\ attempt = 0 /\ rpc = "idle" /\ issueCount = 0 /\ makeCount = 0
    /\ sleepCount = 0 /\ lastErr = NoErr /\ delay = 0 /\ viaRetryAfter = FALSE
    /\ result = NoResult /\ allRetryable = TRUE
    /\ failCount = 0 /\ wakeCount = 0 /\ slept = 0 /\ only503 = TRUE
    /\ event_streams = << >> /\ lock = NoHolder
    /\ chans = [k \in 1..MaxChans |-> NoChan] /\ nextChan = 1
    /\ ppc = [c \in Convs |-> "none"] /\ pev = [c \in Convs |-> NoEvent]
    /\ psenders = [c \in Convs |-> << >>]
    /\ prune_after_send = [c \in Convs |-> FALSE]
    /\ evCount = [c \in Convs |-> 0] /\ foundFull = [c \in Convs |-> {}]
    /\ foundClosed = [c \in Convs |-> {}]
    /\ task = "Idle" /\ inFlight = FALSE /\ phase = "primary"
    /\ fallbackEnabled = FALSE /\ cancelRequested = FALSE /\ cancelPos = "none"
    /\ provider = "none" /\ target = NoTarget /\ fallbacks = 0 /\ primaryIssues = 0
    /\ boBase = 0 /\ boAttempt = 0 /\ boOut = -1 /\ boJitter = 1000

TurnNext ==
    \/ \E env_key \in TurnEnvKeys : TurnResolveCredential(env_key)
    \/ RetryIssue
    \/ RetryOk
    \/ \E err \in TraceErrors, j \in TaskJitters : RetryErr(err, j)
    \/ RetryWake

TurnSpec == TurnSpecInit /\ [][TurnNext]_vars

(***************************************************************************)
(* The infinity command line client (codex-rs/cli/src/infinity_cmd.rs):    *)
(* `infinity addons restore`.  Texts are sequences of characters; the      *)
(* requests handed to the HTTP client are recorded in wire.                *)
(***************************************************************************)
MAX_RETRIES == 3
INITIAL_RETRY_DELAY_MS == 1000

\* CODEX_INFINITY_BASE_URL after normalize_base_url
BaseUrl == <<"h", "t", "t", "p", ":", "/", "/", "1", "2", "7", ".", "0", ".", "0", ".", "1", ":", "9">>

Repos == {<<"o", "w", "n", "e", "r", "/", "r", "e", "p", "o">>, <<"a", "c", "m", "e", "/", "c", "o", "n", "n", "e", "c", "t">>}

\* --type values the argument parser lets through
AddonTypeArgs == {<<"p", "o", "s", "t", "g", "r", "e", "s">>, <<"m", "o", "n", "g", "o", "d", "b">>}

RestoreCommands ==
    [action : {"restore"}, repo : Repos, addon_type : AddonTypeArgs,
     yes : BOOLEAN, json : BOOLEAN]

\* The words that can follow `infinity addons` on the command line
AddonsActions == {"backups", "restore", "events"}

\* enum AddonsCommand: the subcommands the argument parser knows
AddonsCommand == {"backups", "restore"}

AddonsCommands ==
    [action : AddonsActions, repo : Repos, addon_type : AddonTypeArgs,
     yes : BOOLEAN, json : BOOLEAN]

\* AddonListResponse.addons as the server may answer it
AddonLists ==
    {<< >>,
     <<[id |-> <<"a", "d", "d", "o", "n", "-", "p", "g">>, addon_type |-> <<"p", "o", "s", "t", "g", "r", "e", "s">>]>>,
     <<[id |-> <<"a", "d", "d", "o", "n", "-", "p", "g">>, addon_type |-> <<"p", "o", "s", "t", "g", "r", "e", "s">>],
       [id |-> <<"a", "d", "d", "o", "n", "-", "m", "o", "n", "g", "o">>, addon_type |-> <<"M", "o", "n", "g", "o", "D", "B">>]>>,
     <<[id |-> <<"a", "d", "d", "o", "n", "-", "p", "g">>, addon_type |-> <<"p", "o", "s", "t", "g", "r", "e", "s">>],
       [id |-> <<"a", "d", "d", "o", "n", "-", "p", "g", "2">>, addon_type |-> <<"P", "o", "s", "t", "g", "r", "e", "s", " ">>]>>}

\* The bodies a request can be answered with: the add-on list for the GET
\* of find_addon_by_type, the AddonRestoreResponse for the restore POST
Responses ==
    {[kind |-> "addons", addons |-> list] : list \in AddonLists}
        \cup {[kind |-> "restored"], [kind |-> "backups"]}

\* The body each request of the client is answered with on success
ExpectedKind(pc) ==
    CASE pc = "get_json" -> "addons"
      [] pc = "get_backups" -> "backups"
      [] pc = "post_json" -> "restored"

\* get_json or post_json is running
InJson == cli.pc \in {"get_json", "get_backups", "post_json"}

\* The ways try_get_json and try_post_json fail: the send fails, the status
\* is not a success, the body does not decode
Failures ==
    {[kind |-> "send"],
     [kind |-> "status", status |-> <<"5", "0", "0", " ", "I", "n", "t", "e", "r", "n", "a", "l", " ", "S", "e", "r", "v", "e", "r", " ", "E", "r", "r", "o", "r">>, body |-> << >>],
     [kind |-> "status", status |-> <<"5", "0", "4", " ", "G", "a", "t", "e", "w", "a", "y", " ", "T", "i", "m", "e", "o", "u", "t">>, body |-> << >>],
     [kind |-> "status", status |-> <<"5", "0", "2", " ", "B", "a", "d", " ", "G", "a", "t", "e", "w", "a", "y">>,
      body |-> <<"u", "p", "s", "t", "r", "e", "a", "m", " ", "c", "o", "n", "n", "e", "c", "t", "i", "o", "n", " ", "r", "e", "s", "e", "t">>],
     [kind |-> "decode"]}

\* e.to_string() of the anyhow error built by try_get_json / try_post_json:
\* the outermost context message
error_to_string(f, method, url) ==
    CASE f.kind = "send" -> <<"r", "e", "q", "u", "e", "s", "t", " ", "f", "a", "i", "l", "e", "d", ":", " ">> \o method \o <<" ">> \o url
      [] f.kind = "status" ->
            method \o <<" ">> \o url \o <<" ", "f", "a", "i", "l", "e", "d", ":", " ">> \o f.status
                   \o <<";", " ", "b", "o", "d", "y", "=">> \o f.body
      [] f.kind = "decode" -> <<"F", "a", "i", "l", "e", "d", " ", "t", "o", " ", "d", "e", "c", "o", "d", "e", " ", "r", "e", "s", "p", "o", "n", "s", "e", " ", "f", "r", "o", "m", " ">> \o url

\* is_retryable in get_json / post_json
is_retryable(msg) ==
    \/ contains(msg, <<"t", "i", "m", "e", "o", "u", "t">>)
    \/ contains(msg, <<"c", "o", "n", "n", "e", "c", "t">>)
    \/ contains(msg, <<"c", "o", "n", "n", "e", "c", "t", "i", "o", "n">>)

\* normalize_addon_type
normalize_addon_type(value) ==
    LET normalized == to_lowercase(trim(value))
    IN  IF normalized = <<"m", "o", "n", "g", "o", "d", "b">> THEN <<"m", "o", "n", "g", "o">> ELSE normalized

\* INITIAL_RETRY_DELAY_MS * (1 << (attempt - 1))
delay_ms(n) == INITIAL_RETRY_DELAY_MS * 2 ^ (n - 1)

OkOut(v) == [tag |-> "Ok", val |-> v]
ErrOut(msg) == [tag |-> "Err", msg |-> msg]

RECURSIVE JoinIds(_)
\* ids.join(", ")
JoinIds(addons) ==
    IF addons = << >> THEN << >>
    ELSE IF Len(addons) = 1 THEN addons[1].id
    ELSE addons[1].id \o <<",", " ">> \o JoinIds(Tail(addons))

\* get_json / post_json entered for a path: the loop starts at attempt 0
BeginJson(c, pc, method, url) ==
    [c EXCEPT !.pc = pc, !.loop = "top", !.attempt = 0, !.method = method,
              !.url = url, !.last_error = None, !.ret = NoRet]

\* mutant: the lookup starts whether or not --yes was given
RunAddonRestore_NoConfirm ==
    /\ cli.pc = "run_addon_restore"
    /\ cli' = BeginJson(cli, "get_json", <<"G", "E", "T">>,
                        BaseUrl \o <<"/", "a", "p", "i", "/", "p", "r", "o", "j", "e", "c", "t", "s", "/">> \o cli.cmd.repo \o <<"/", "a", "d", "d", "o", "n", "s">>)
    /\ UNCHANGED wire
    /\ UNCHANGED <<retryVars, backoffVars, bcastVars, taskVars, callVars>>

\* run_addon_restore up to the call of find_addon_by_type, which calls
\* get_json
RunAddonRestore ==
    /\ cli.pc = "run_addon_restore"
    /\ cli' = IF ~cli.cmd.yes
              THEN [cli EXCEPT !.pc = "done",
                      !.out = ErrOut(<<"R", "e", "s", "t", "o", "r", "e", " ", "i", "s", " ", "d", "e", "s", "t", "r", "u", "c", "t", "i", "v", "e", ".", " ", "R", "e", "-", "r", "u", "n", " ", "w", "i", "t", "h", " ", "-", "-", "y", "e", "s", " ", "t", "o", " ", "c", "o", "n", "f", "i", "r", "m", ".">>)]
              ELSE BeginJson(cli, "get_json", <<"G", "E", "T">>,
                       BaseUrl \o <<"/", "a", "p", "i", "/", "p", "r", "o", "j", "e", "c", "t", "s", "/">> \o cli.cmd.repo \o <<"/", "a", "d", "d", "o", "n", "s">>)
    /\ UNCHANGED wire
    /\ UNCHANGED <<retryVars, backoffVars, bcastVars, taskVars, callVars>>

\* get_json / post_json: tokio::time::sleep(delay_ms) before a retry
JsonSleep ==
    /\ InJson
    /\ cli.loop = "top"
    /\ cli.attempt > 0
    /\ cli' = [cli EXCEPT !.loop = "sleeping",
                          !.slept = Append(@, delay_ms(cli.attempt))]
    /\ UNCHANGED wire
    /\ UNCHANGED <<retryVars, backoffVars, bcastVars, taskVars, callVars>>

\* try_get_json / try_post_json: the request is handed to the HTTP client
JsonSend ==
    /\ InJson
    /\ \/ cli.loop = "top" /\ cli.attempt = 0
       \/ cli.loop = "sleeping"
    /\ wire' = Append(wire, [method |-> cli.method, url |-> cli.url])
    /\ cli' = [cli EXCEPT !.loop = "sent"]
    /\ UNCHANGED <<retryVars, backoffVars, bcastVars, taskVars, callVars>>

\* try_*_json returns Ok(parsed): the loop returns it
JsonOk(parsed) ==
    /\ InJson
    /\ cli.loop = "sent"
    /\ parsed.kind = ExpectedKind(cli.pc)
    /\ cli' = [cli EXCEPT !.loop = "returned", !.ret = OkOut(parsed)]
    /\ UNCHANGED wire
    /\ UNCHANGED <<retryVars, backoffVars, bcastVars, taskVars, callVars>>

\* mutant: every failure is retried
JsonErr_RetryAll(f) ==
    /\ InJson
    /\ cli.loop = "sent"
    /\ LET e == error_to_string(f, cli.method, cli.url)
       IN  cli' = IF cli.attempt + 1 < MAX_RETRIES
                  THEN [cli EXCEPT !.loop = "top", !.attempt = @ + 1,
                                   !.last_error = Some(e)]
                  ELSE [cli EXCEPT !.loop = "returned", !.attempt = @ + 1,
                                   !.last_error = Some(e), !.ret = ErrOut(e)]
    /\ UNCHANGED wire
    /\ UNCHANGED <<retryVars, backoffVars, bcastVars, taskVars, callVars>>

\* try_*_json returns Err(e): returned at once unless retryable, kept as
\* last_error otherwise; after the last attempt last_error is returned
JsonErr(f) ==
    /\ InJson
    /\ cli.loop = "sent"
    /\ LET e == error_to_string(f, cli.method, cli.url)
       IN  cli' = IF ~is_retryable(e)
                  THEN [cli EXCEPT !.loop = "returned", !.ret = ErrOut(e)]
                  ELSE IF cli.attempt + 1 < MAX_RETRIES
                  THEN [cli EXCEPT !.loop = "top", !.attempt = @ + 1,
                                   !.last_error = Some(e)]
                  ELSE [cli EXCEPT !.loop = "returned", !.attempt = @ + 1,
                                   !.last_error = Some(e), !.ret = ErrOut(e)]
    /\ UNCHANGED wire
    /\ UNCHANGED <<retryVars, backoffVars, bcastVars, taskVars, callVars>>

\* find_addon_by_type after get_json, then run_addon_restore up to the call
\* of post_json
FindAddonReturn ==
    /\ cli.pc = "get_json"
    /\ cli.loop = "returned"
    /\ LET normalized == normalize_addon_type(cli.cmd.addon_type)
           Matches(addon) == normalize_addon_type(addon.addon_type) = normalized
           matches == IF cli.ret.tag = "Ok" THEN SelectSeq(cli.ret.val.addons, Matches)
                      ELSE << >>
       IN  cli' =
             IF cli.ret.tag = "Err"
             THEN [cli EXCEPT !.pc = "done", !.out = cli.ret]
             ELSE IF matches = << >>
             THEN [cli EXCEPT !.pc = "done",
                     !.out = ErrOut(<<"N", "o", " ">> \o normalized \o <<" ", "a", "d", "d", "-", "o", "n", " ", "f", "o", "u", "n", "d", " ", "f", "o", "r", " ">>
                                    \o cli.cmd.repo)]
             ELSE IF Len(matches) > 1
             THEN [cli EXCEPT !.pc = "done",
                     !.out = ErrOut(<<"M", "u", "l", "t", "i", "p", "l", "e", " ">> \o normalized
                                    \o <<" ", "a", "d", "d", "-", "o", "n", "s", " ", "f", "o", "u", "n", "d", " ", "f", "o", "r", " ">> \o cli.cmd.repo
                                    \o <<":", " ">> \o JoinIds(matches))]
             ELSE IF cli.cmd.action = "backups"
             THEN BeginJson(cli, "get_backups", <<"G", "E", "T">>,
                      BaseUrl \o <<"/", "a", "p", "i", "/", "p", "r", "o", "j", "e", "c", "t", "s", "/">> \o cli.cmd.repo
                              \o <<"/", "a", "d", "d", "o", "n", "s", "/">> \o matches[1].id
                              \o <<"/", "b", "a", "c", "k", "u", "p", "s", "?", "l", "i", "m", "i", "t", "=", "5", "0">>)
             ELSE BeginJson(cli, "post_json", <<"P", "O", "S", "T">>,
                      BaseUrl \o <<"/", "a", "p", "i", "/", "p", "r", "o", "j", "e", "c", "t", "s", "/">> \o cli.cmd.repo
                              \o <<"/", "a", "d", "d", "o", "n", "s", "/">> \o matches[1].id \o <<"/", "r", "e", "s", "t", "o", "r", "e">>)
    /\ UNCHANGED wire
    /\ UNCHANGED <<retryVars, backoffVars, bcastVars, taskVars, callVars>>

\* run_addon_restore after post_json: the error is returned, or the
\* response is printed as JSON or as text
RestoreReturn ==
    /\ cli.pc = "post_json"
    /\ cli.loop = "returned"
    /\ cli' = [cli EXCEPT !.pc = "done",
                 !.out = IF cli.ret.tag = "Err" THEN cli.ret
                         ELSE OkOut(IF cli.cmd.json THEN "json"
                                    ELSE "Restore completed")]
    /\ UNCHANGED wire
    /\ UNCHANGED <<retryVars, backoffVars, bcastVars, taskVars, callVars>>

CliSpecInit ==
    /\ \E cmd \in RestoreCommands :
          cli = [pc |-> "run_addon_restore", cmd |-> cmd, loop |-> "none",
                 attempt |-> 0, method |-> << >>, url |-> << >>,
                 last_error |-> None, slept |-> << >>, ret |-> NoRet,
                 out |-> NoRet]
    /\ wire = << >>
    /\ env = NoEnv /\ call = NoCall /\ ret = NoRet
    /\ event_streams = << >> /\ lock = NoHolder
    /\ chans = [k \in 1..MaxChans |-> NoChan] /\ nextChan = 1
    /\ ppc = [c \in Convs |-> "none"] /\ pev = [c \in Convs |-> NoEvent]
    /\ psenders = [c \in Convs |-> << >>]
    /\ prune_after_send = [c \in Convs |-> FALSE]
    /\ evCount = [c \in Convs |-> 0] /\ foundFull = [c \in Convs |-> {}]
    /\ foundClosed = [c \in Convs |-> {}]
    /\ task = "Idle" /\ inFlight = FALSE /\ phase = "primary"
    /\ fallbackEnabled = FALSE /\ cancelRequested = FALSE /\ cancelPos = "none"
    /\ provider = "none" /\ target = NoTarget /\ fallbacks = 0 /\ primaryIssues = 0
    /\ policy = IdlePolicy
    /\ attempt = 0 /\ rpc = "idle" /\ issueCount = 0 /\ makeCount = 0
    /\ sleepCount = 0 /\ lastErr = NoErr /\ delay = 0 /\ viaRetryAfter = FALSE
    /\ result = NoResult /\ allRetryable = TRUE
    /\ failCount = 0 /\ wakeCount = 0 /\ slept = 0 /\ only503 = TRUE
    /\ boBase = 0 /\ boAttempt = 0 /\ boOut = -1 /\ boJitter = 1000

CliNext ==
    \/ RunAddonRestore
    \/ JsonSleep
    \/ JsonSend
    \/ \E parsed \in Responses : JsonOk(parsed)
    \/ \E f \in Failures : JsonErr(f)
    \/ FindAddonReturn
    \/ RestoreReturn

CliSpec == CliSpecInit /\ [][CliNext]_vars

(***************************************************************************)
(* `infinity addons <action>`: the argument parser and run_addons_command  *)
(* dispatch the subcommands of AddonsCommand.                              *)
(***************************************************************************)
\* The parser of AddonsCli, then run_addons_command: a word that is not a
\* subcommand of AddonsCommand is a usage error
RunAddonsCommand ==
    /\ cli.pc = "run_addons_command"
    /\ cli' = IF cli.cmd.action \notin AddonsCommand
              THEN [cli EXCEPT !.pc = "done",
                               !.out = ErrOut(<<"u", "n", "r", "e", "c", "o", "g", "n", "i", "z", "e", "d", " ", "s", "u", "b", "c", "o", "m", "m", "a", "n", "d">>)]
              ELSE IF cli.cmd.action = "backups"
              THEN [cli EXCEPT !.pc = "run_addon_backups"]
              ELSE [cli EXCEPT !.pc = "run_addon_restore"]
    /\ UNCHANGED wire
    /\ UNCHANGED <<retryVars, backoffVars, bcastVars, taskVars, callVars>>

\* run_addon_backups up to the call of find_addon_by_type
RunAddonBackups ==
    /\ cli.pc = "run_addon_backups"
    /\ cli' = BeginJson(cli, "get_json", <<"G", "E", "T">>,
                        BaseUrl \o <<"/", "a", "p", "i", "/", "p", "r", "o", "j", "e", "c", "t", "s", "/">> \o cli.cmd.repo \o <<"/", "a", "d", "d", "o", "n", "s">>)
    /\ UNCHANGED wire
    /\ UNCHANGED <<retryVars, backoffVars, bcastVars, taskVars, callVars>>

\* run_addon_backups after the get_json of the backups: the error is
\* returned, or the response is printed as JSON or as a table
BackupsReturn ==
    /\ cli.pc = "get_backups"
    /\ cli.loop = "returned"
    /\ cli' = [cli EXCEPT !.pc = "done",
                 !.out = IF cli.ret.tag = "Err" THEN cli.ret
                         ELSE OkOut(IF cli.cmd.json THEN "json" ELSE "table")]
    /\ UNCHANGED wire
    /\ UNCHANGED <<retryVars, backoffVars, bcastVars, taskVars, callVars>>

AddonsSpecInit ==
    /\ \E cmd \in AddonsCommands :
          cli = [pc |-> "run_addons_command", cmd |-> cmd, loop |-> "none",
                 attempt |-> 0, method |-> << >>, url |-> << >>,
                 last_error |-> None, slept |-> << >>, ret |-> NoRet,
                 out |-> NoRet]
    /\ wire = << >>
    /\ env = NoEnv /\ call = NoCall /\ ret = NoRet
    /\ event_streams = << >> /\ lock = NoHolder
    /\ chans = [k \in 1..MaxChans |-> NoChan] /\ nextChan = 1
    /\ ppc = [c \in Convs |-> "none"] /\ pev = [c \in Convs |-> NoEvent]
    /\ psenders = [c \in Convs |-> << >>]
    /\ prune_after_send = [c \in Convs |-> FALSE]
    /\ evCount = [c \in Convs |-> 0] /\ foundFull = [c \in Convs |-> {}]
    /\ foundClosed = [c \in Convs |-> {}]
    /\ task = "Idle" /\ inFlight = FALSE /\ phase = "primary"
    /\ fallbackEnabled = FALSE /\ cancelRequested = FALSE /\ cancelPos = "none"
    /\ provider = "none" /\ target = NoTarget /\ fallbacks = 0 /\ primaryIssues = 0
    /\ policy = IdlePolicy
    /\ attempt = 0 /\ rpc = "idle" /\ issueCount = 0 /\ makeCount = 0
    /\ sleepCount = 0 /\ lastErr = NoErr /\ delay = 0 /\ viaRetryAfter = FALSE
    /\ result = NoResult /\ allRetryable = TRUE
    /\ failCount = 0 /\ wakeCount = 0 /\ slept = 0 /\ only503 = TRUE
    /\ boBase = 0 /\ boAttempt = 0 /\ boOut = -1 /\ boJitter = 1000

AddonsNext ==
    \/ RunAddonsCommand
    \/ RunAddonBackups
    \/ RunAddonRestore
    \/ JsonSleep
    \/ JsonSend
    \/ \E parsed \in Responses : JsonOk(parsed)
    \/ \E f \in Failures : JsonErr(f)
    \/ FindAddonReturn
    \/ BackupsReturn
    \/ RestoreReturn

AddonsSpec == AddonsSpecInit /\ [][AddonsNext]_vars

(***************************************************************************)
(* `infinity-tasks cancel` (codex-rs/infinity-tasks/src/lib.rs).  The      *)
(* calls made on the backend are recorded in wire.                         *)
(***************************************************************************)
AgentIds == {7, 42}

CancelCommands == [agent_id : AgentIds, force : BOOLEAN]

\* What read_line can put into input: a line, or nothing at end of input
Answers ==
    {<<"y", "\n">>, <<"Y", "\n">>, <<" ", "y", " ", "\n">>, <<"y">>, <<"n", "\n">>, <<"N", "\n">>, <<"\n">>, << >>,
     <<"y", "e", "s", "\n">>, <<"y", "y", "\n">>}

\* std::io::stdin().read_line(&mut input): Ok with the line in input, or Err
ReadLines == {[ok |-> TRUE, line |-> a] : a \in Answers} \cup {[ok |-> FALSE]}

CancelEnvs ==
    [{"CODEX_INFINITY_MODE", "CODEX_INFINITY_API_KEY"} ->
        {Unset, Text(<<"m", "o", "c", "k">>), Text(<<"M", "O", "C", "K">>), Text(<<"t", "e", "s", "t", "-", "k", "e", "y">>)}]

\* str::eq_ignore_ascii_case
eq_ignore_ascii_case(a, b) == to_lowercase(a) = to_lowercase(b)

\* mutant: an answer that begins with y confirms
CancelPrompt_PrefixY(read) ==
    /\ cli.pc = "run_cancel_command"
    /\ ~cli.cmd.force
    /\ cli' = IF ~read.ok
              THEN [cli EXCEPT !.pc = "done", !.out = ErrOut("read_line")]
              ELSE IF trim(read.line) # << >>
                      /\ eq_ignore_ascii_case(<<trim(read.line)[1]>>, <<"y">>)
              THEN [cli EXCEPT !.pc = "init_backend", !.input = Some(read.line)]
              ELSE [cli EXCEPT !.pc = "done", !.input = Some(read.line),
                               !.out = OkOut("Cancelled")]
    /\ UNCHANGED wire
    /\ UNCHANGED <<retryVars, backoffVars, bcastVars, taskVars, callVars>>

\* run_cancel_command with --force: no prompt
CancelForce ==
    /\ cli.pc = "run_cancel_command"
    /\ cli.cmd.force
    /\ cli' = [cli EXCEPT !.pc = "init_backend"]
    /\ UNCHANGED wire
    /\ UNCHANGED <<retryVars, backoffVars, bcastVars, taskVars, callVars>>

\* run_cancel_command without --force: the prompt, read_line and the test
\* of the answer
CancelPrompt(read) ==
    /\ cli.pc = "run_cancel_command"
    /\ ~cli.cmd.force
    /\ cli' = IF ~read.ok
              THEN [cli EXCEPT !.pc = "done", !.out = ErrOut("read_line")]
              ELSE IF eq_ignore_ascii_case(trim(read.line), <<"y">>)
              THEN [cli EXCEPT !.pc = "init_backend", !.input = Some(read.line)]
              ELSE [cli EXCEPT !.pc = "done", !.input = Some(read.line),
                               !.out = OkOut("Cancelled")]
    /\ UNCHANGED wire
    /\ UNCHANGED <<retryVars, backoffVars, bcastVars, taskVars, callVars>>

\* init_backend: the mock client when CODEX_INFINITY_MODE is mock or MOCK,
\* else HttpClient::new(), which needs CODEX_INFINITY_API_KEY
InitBackend ==
    /\ cli.pc = "init_backend"
    /\ LET mode == env_var_ok(env, "CODEX_INFINITY_MODE")
           use_mock == mode.some /\ mode.val \in {<<"m", "o", "c", "k">>, <<"M", "O", "C", "K">>}
       IN  cli' = IF use_mock
                  THEN [cli EXCEPT !.pc = "delete", !.backend = "MockClient"]
                  ELSE IF ~env_var_ok(env, "CODEX_INFINITY_API_KEY").some
                  THEN [cli EXCEPT !.pc = "done", !.out = ErrOut("MissingApiKey")]
                  ELSE [cli EXCEPT !.pc = "delete", !.backend = "HttpClient"]
    /\ UNCHANGED wire
    /\ UNCHANGED <<retryVars, backoffVars, bcastVars, taskVars, callVars>>

\* ctx.backend.delete(AgentId(cmd.agent_id)) is called
BackendDelete ==
    /\ cli.pc = "delete"
    /\ wire' = Append(wire, [op |-> "delete", agent_id |-> cli.cmd.agent_id,
                             backend |-> cli.backend])
    /\ cli' = [cli EXCEPT !.pc = "deleting"]
    /\ UNCHANGED <<retryVars, backoffVars, bcastVars, taskVars, callVars>>

\* delete(..).await? returns: the mock client always answers Ok
DeleteReturn(ok) ==
    /\ cli.pc = "deleting"
    /\ cli.backend = "MockClient" => ok
    /\ cli' = [cli EXCEPT !.pc = "done",
                 !.out = IF ok THEN OkOut("Agent cancelled") ELSE ErrOut("Http")]
    /\ UNCHANGED wire
    /\ UNCHANGED <<retryVars, backoffVars, bcastVars, taskVars, callVars>>

CancelSpecInit ==
    /\ \E cmd \in CancelCommands :
          cli = [pc |-> "run_cancel_command", cmd |-> cmd, input |-> None,
                 backend |-> "none", out |-> NoRet]
    /\ wire = << >>
    /\ env \in CancelEnvs
    /\ call = NoCall /\ ret = NoRet
    /\ event_streams = << >> /\ lock = NoHolder
    /\ chans = [k \in 1..MaxChans |-> NoChan] /\ nextChan = 1
    /\ ppc = [c \in Convs |-> "none"] /\ pev = [c \in Convs |-> NoEvent]
    /\ psenders = [c \in Convs |-> << >>]
    /\ prune_after_send = [c \in Convs |-> FALSE]
    /\ evCount = [c \in Convs |-> 0] /\ foundFull = [c \in Convs |-> {}]
    /\ foundClosed = [c \in Convs |-> {}]
    /\ task = "Idle" /\ inFlight = FALSE /\ phase = "primary"
    /\ fallbackEnabled = FALSE /\ cancelRequested = FALSE /\ cancelPos = "none"
    /\ provider = "none" /\ target = NoTarget /\ fallbacks = 0 /\ primaryIssues = 0
    /\ policy = IdlePolicy
    /\ attempt = 0 /\ rpc = "idle" /\ issueCount = 0 /\ makeCount = 0
    /\ sleepCount = 0 /\ lastErr = NoErr /\ delay = 0 /\ viaRetryAfter = FALSE
    /\ result = NoResult /\ allRetryable = TRUE
    /\ failCount = 0 /\ wakeCount = 0 /\ slept = 0 /\ only503 = TRUE
    /\ boBase = 0 /\ boAttempt = 0 /\ boOut = -1 /\ boJitter = 1000

CancelNext ==
    \/ CancelForce
    \/ \E read \in ReadLines : CancelPrompt(read)
    \/ InitBackend
    \/ BackendDelete
    \/ \E ok \in BOOLEAN : DeleteReturn(ok)

CancelSpec == CancelSpecInit /\ [][CancelNext]_vars

(***************************************************************************)
(* Properties of the retry engine                                          *)
(***************************************************************************)
Returned == rpc = "returned"
ReturnedErr == rpc = "returned" /\ result.tag = "Err"
\* the last step was a failure of op at loop index `attempt`
JustFailed == rpc \in {"sleeping", "panicked"} \/ ReturnedErr

\* C4: op is never invoked more than max_attempts + 1 times, and when every
\* attempt failed with an error of a retryable class and run_with_retry
\* returned, op was invoked exactly max_attempts + 1 times.
C4_AttemptBudget ==
    /\ issueCount <= policy.max_attempts + 1
    /\ (ReturnedErr /\ allRetryable) => issueCount = policy.max_attempts + 1

C4_Witness ==
    /\ ReturnedErr /\ allRetryable
    /\ policy.max_attempts = 3 /\ policy.retry_transport
    /\ lastErr.kind = "Timeout" /\ issueCount = 4

\* C5: once the budget is spent after at least one retryable failure,
\* run_with_retry returns RetryLimit (wrapping the last error).
C5_ExhaustionReturnsRetryLimit ==
    (ReturnedErr /\ allRetryable /\ policy.max_attempts >= 1
        /\ issueCount = policy.max_attempts + 1)
    => result.err.kind = "RetryLimit"

\* C6: a 429 whose body carries a quota marker is returned at once, whatever
\* the flags, max_attempts and the attempt number: no sleep follows it and
\* no further op invocation.
C6_QuotaNeverRetried ==
    (Is429(lastErr) /\ QuotaMarker(lastErr.body))
    => /\ rpc = "returned"
       /\ result = [tag |-> "Err", err |-> lastErr]
       /\ issueCount = attempt + 1
       /\ sleepCount = attempt

C6_Witness ==
    /\ Is429(lastErr) /\ lastErr.body.ecode = "quota_exceeded"
    /\ policy.retry_429 /\ attempt = 1 /\ policy.max_attempts = 3
    /\ rpc = "returned"

C8_Classification ==
    JustFailed =>
      /\ (Is5xx(lastErr) /\ attempt < policy.max_attempts)
            => ((rpc = "sleeping") <=> policy.retry_5xx)
      /\ (IsTransport(lastErr) /\ attempt < policy.max_attempts)
            => ((rpc = "sleeping") <=> policy.retry_transport)
      /\ (~Is5xx(lastErr) /\ ~IsTransport(lastErr) /\ ~Is429(lastErr))
            => /\ rpc = "returned"
               /\ result = [tag |-> "Err", err |-> lastErr]
               /\ issueCount = attempt + 1

C8_Witness ==
    /\ ReturnedErr /\ lastErr.kind = "Http" /\ lastErr.status = 404
    /\ policy.retry_5xx /\ policy.retry_transport /\ policy.retry_429
    /\ attempt = 0 /\ issueCount = 1 /\ policy.max_attempts = 3

\* Retry-After values that are a non-negative number of seconds
NonNegativeSeconds == {"0", "1.5", "30", "120", "500", "1e20"}
SecondsCapped(s) ==
    IF s = "1e20" THEN MAX_BACKOFF_MS * 1000
    ELSE Min(ParseF64(s).us, MAX_BACKOFF_MS * 1000)

\* C9: a retried 429 with a non-negative Retry-After sleeps that duration
\* capped at 120 s; with the header absent, negative or unparsable the
\* delay is the computed backoff.
C9_RetryAfterOverrides ==
    (rpc \in {"sleeping", "panicked"} /\ Is429(lastErr))
    => IF lastErr.headers.hasRA /\ lastErr.headers.ra \in NonNegativeSeconds
       THEN rpc = "sleeping" /\ viaRetryAfter
            /\ delay = SecondsCapped(lastErr.headers.ra)
       ELSE (~lastErr.headers.hasRA \/ lastErr.headers.ra \in {"-1", "soon"})
            => (rpc = "sleeping" /\ ~viaRetryAfter)

RECURSIVE Doubled(_, _, _)
\* x * 2^n, capped at cap
Doubled(x, n, cap) ==
    IF x >= cap THEN cap
    ELSE IF n = 0 \/ x = 0 THEN x ELSE Doubled(2 * x, n - 1, cap)

\* C10 (as claimed): backoff(base, 0) = base, and for a >= 1 backoff(base, a)
\* lies within [0.9, 1.1] x min(base x 2^(a-1), 120000 ms).
C10_BackoffBounds ==
    boOut # -1 =>
      IF boAttempt = 0 THEN boOut = boBase
      ELSE LET e == Doubled(boBase, boAttempt - 1, MAX_BACKOFF_MS * 1000)
           IN  10 * boOut >= 9 * e /\ 10 * boOut <= 11 * e

\* C10 (amended): backoff(base, 0) = base, and for a >= 1, with
\* raw = min(floor(base in ms) x 2^(a-1), 120000), backoff(base, a) is a
\* whole number of milliseconds in [floor(0.9 x raw), 1.1 x raw].
C10_BackoffBoundsTruncated ==
    boOut # -1 =>
      IF boAttempt = 0 THEN boOut = boBase
      ELSE LET raw == Doubled(boBase \div 1000, boAttempt - 1, MAX_BACKOFF_MS)
               ms == boOut \div 1000
           IN  /\ boOut = ms * 1000
               /\ 10 * (ms + 1) > 9 * raw
               /\ 10 * ms <= 11 * raw

C10_Witness ==
    /\ boOut # -1 /\ boAttempt = 4 /\ boBase = 70000000 /\ boJitter = 1099
    /\ boOut = 131880000

(***************************************************************************)
(* Properties of the event broadcaster                                     *)
(***************************************************************************)
InRound == {"copy_wait", "copy_locked", "sending", "send_blocked",
            "prune_wait", "prune_locked"}

\* event seq was taken from channel k by its receiver
Received(k, seq) == \E i \in 1..chans[k].rcvd : chans[k].sent[i] = seq

\* C1: a subscriber that keeps reading and was registered before an event
\* was produced receives it, unless its own channel is closed; and what a
\* channel is given follows the production order.
C1_RegisteredSubscriberReceives ==
    /\ [](\A k \in 1..MaxChans : \A i \in 1..Len(chans[k].sent) :
            i > 1 => chans[k].sent[i - 1] < chans[k].sent[i])
    /\ \A k \in 2..MaxChans : \A n \in 1..MaxEvents :
          (chans[k].state = "registered" /\ chans[k].regAt < n
              /\ evCount[chans[k].conv] >= n)
          ~> (~chans[k].rxOpen \/ Received(k, n))

\* the part of C1 that no stalled subscriber can break: a channel is given
\* consecutive events, starting with the one current at its registration
\* or the next, and a finished round has reached every open subscriber
\* registered before its event
C1_InOrderNoGap ==
    \A k \in 1..MaxChans :
      LET ch == chans[k] IN
      /\ \A i \in 1..Len(ch.sent) :
            IF i = 1 THEN ch.sent[1] \in {ch.regAt, ch.regAt + 1}
            ELSE ch.sent[i] = ch.sent[i - 1] + 1
      /\ (ch.state = "registered" /\ ch.rxOpen /\ ppc[ch.conv] = "next_event"
             /\ ch.regAt < evCount[ch.conv])
         => ch.sent # << >> /\ ch.sent[Len(ch.sent)] = evCount[ch.conv]

\* C2: a subscriber whose channel is found full during a broadcast round
\* is out of the registry when that round ends.
C2_FullSubscriberPrunedInRound ==
    [][\A c \in Convs :
          (ppc[c] \in InRound /\ ppc'[c] \notin InRound)
          => \A k \in foundFull[c] :
                ~(c \in DOMAIN event_streams'
                  /\ \E i \in 1..Len(event_streams'[c]) : event_streams'[c][i] = k)]_vars

\* C3: whatever the subscribers do, a producer loop that is in a broadcast
\* round finishes it (and is back at next_event, or past the loop).
C3_RoundAlwaysFinishes ==
    \A c \in Convs : (ppc[c] \in InRound) ~> (ppc[c] \notin InRound)

(***************************************************************************)
(* The retry loop as a trace (TraceSpec, RetrySpec)                        *)
(***************************************************************************)
ReturnedOk == rpc = "returned" /\ result.tag = "Ok"

\* the calls failed with 503 twice and then succeeded, under retry_5xx and
\* a base delay of 100 ms
Trace503x2 ==
    /\ ReturnedOk /\ failCount = 2 /\ only503
    /\ policy.retry_5xx /\ policy.base_delay = 100000

\* C11 (as stated): 503, 503, success under retry_5xx and a 100 ms base
\* delay gives exactly 3 issue invocations and exactly 2 sleeps, and the
\* time slept is at least 100 ms (the base) plus 180 ms (the jittered
\* 200 ms)
C11_TraceSleepsBaseFirst ==
    Trace503x2 => /\ issueCount = 3 /\ sleepCount = 2 /\ wakeCount = 2
                  /\ slept >= 100000 + 180000

\* C11 (amended): the same trace gives exactly 3 issue invocations and
\* exactly 2 sleeps, both delays are jittered (backoff is called with
\* attempt + 1 >= 1), so the time slept is at least 90 ms + 180 ms and
\* less than 110 ms + 220 ms
C11_TraceSleepsJittered ==
    Trace503x2 => /\ issueCount = 3 /\ sleepCount = 2 /\ wakeCount = 2
                  /\ slept >= 90000 + 180000
                  /\ slept < 110000 + 220000

\* the trace of C11 with the shortest delays the jitter allows
C11_Witness == Trace503x2 /\ issueCount = 3 /\ slept = 270000

\* requests issued and not yet resolved
Outstanding ==
    issueCount - failCount - (IF result.tag = "Ok" THEN 1 ELSE 0)

\* C12: within one run_with_retry call at most one request is outstanding,
\* and while attempt k+1 is outstanding every earlier attempt has returned
\* its failure and every sleep started for one has fully elapsed; while a
\* sleep is in progress no request is outstanding
C12_OneOutstanding ==
    /\ Outstanding \in {0, 1}
    /\ (Outstanding = 1) <=> (rpc = "issued")
    /\ rpc = "issued" =>
          /\ failCount = issueCount - 1
          /\ sleepCount = failCount
          /\ wakeCount = sleepCount
    /\ rpc = "sleeping" =>
          /\ Outstanding = 0
          /\ sleepCount = wakeCount + 1
          /\ failCount = issueCount

\* the third attempt is outstanding after two failures and two sleeps
C12_Witness ==
    rpc = "issued" /\ issueCount = 3 /\ failCount = 2 /\ wakeCount = 2

\* C13: the request factory has been invoked exactly as often as issue (once
\* immediately before each issue invocation); a success is returned at once,
\* it is the last issue invocation, and after it there is no further
\* factory call, issue call or sleep
C13_FactoryBeforeEachIssue ==
    /\ [](makeCount = issueCount)
    /\ [](result.tag = "Ok" => rpc = "returned" /\ issueCount = failCount + 1
                                /\ sleepCount = wakeCount)
    /\ [][result.tag = "Ok" =>
             UNCHANGED <<makeCount, issueCount, sleepCount, wakeCount, result>>]_vars

\* a success on the second attempt, after one rebuilt request
C13_Witness ==
    ReturnedOk /\ issueCount = 2 /\ makeCount = 2 /\ sleepCount = 1

C16_TaskStateMachine ==
    /\ [](task \in TaskStates)
    /\ [](inFlight <=> task = "Running")
    /\ [][/\ task = "Idle" => task' \in {"Idle", "Running"}
          /\ task = "Running" => task' \in {"Running"} \cup TerminalStates
          /\ task \in TerminalStates => task' = task]_vars

\* a task that failed after its fallback call and is no longer in flight
C16_Witness ==
    task = "Failed" /\ phase = "fallback" /\ ~inFlight /\ issueCount >= 2

(***************************************************************************)
(* Properties of the subscriber registry (Spec, FairSpec)                  *)
(***************************************************************************)
\* the registry holds channel k in the list of its conversation
InRegistry(map, k) ==
    \E c \in DOMAIN map : \E i \in 1..Len(map[c]) : map[c][i] = k

\* C17: whenever the registry lock is free, no conversation id maps to an
\* empty subscriber list
C17_NoEmptyList ==
    lock = NoHolder => \A c \in DOMAIN event_streams : event_streams[c] # << >>

\* the only subscriber of the running conversation A went away and was
\* pruned: A has no entry left
C17_Witness ==
    /\ lock = NoHolder
    /\ ppc["A"] = "next_event"
    /\ ~HasEntry("A")
    /\ \E k \in 1..MaxChans :
          chans[k].state = "registered" /\ chans[k].conv = "A" /\ IsClosed(k)

\* C18: a subscriber receives no event whose broadcast had begun when it
\* joined: having joined after N events, it is sent only events numbered
\* above N
C18_NoReplay ==
    \A k \in 1..MaxChans :
        chans[k].state = "registered" =>
            \A i \in 1..Len(chans[k].sent) :
                chans[k].sent[i] > chans[k].joinedAfter

\* a subscriber that joined after the first event was sent event 2 only
C18_Witness ==
    \E k \in 1..MaxChans :
        /\ chans[k].state = "registered"
        /\ chans[k].joinedAfter = 1
        /\ chans[k].sent = <<2>>

\* conversation c takes the step that ends a round of its loop
RoundEnds(c) == ppc[c] \in InRound /\ ppc'[c] \notin InRound

\* the channels whose send failed in the round of c that is ending
FailedInRound(c) ==
    foundClosed[c] \cup
        (IF ppc[c] \in {"sending", "send_blocked"} /\ psenders[c] # << >>
            /\ IsClosed(Head(psenders[c]))
         THEN {Head(psenders[c])} ELSE {})

\* C19: a round in which a send failed on a closed subscriber still ends
\* with the event given to every open subscriber that had joined before
\* the round's copy of the list, the loop goes on to the next event (it
\* leaves only on the terminal event), and the closed subscriber is out of
\* the registry when the round ends
C19_SendFailureSwallowed ==
    [][\A c \in Convs :
         RoundEnds(c) /\ FailedInRound(c) # {} =>
            /\ \A k \in FailedInRound(c) : ~InRegistry(event_streams', k)
            /\ \A k \in 1..MaxChans :
                  (/\ chans'[k].state = "registered" /\ chans'[k].conv = c
                   /\ chans'[k].rxOpen /\ chans'[k].joinedAfter < pev[c].seq)
                  => \E i \in 1..Len(chans'[k].sent) : chans'[k].sent[i] = pev[c].seq
            /\ ppc'[c] = (IF pev[c].shutdown THEN "final_wait" ELSE "next_event")]_vars

\* the send to the first subscriber failed (it had gone away after the copy
\* of the list), the second subscriber was then sent the same event, and
\* the loop is on its way to the prune
C19_Witness ==
    /\ ppc["A"] = "prune_wait" /\ pev["A"].seq = 1
    /\ foundClosed["A"] = {1}
    /\ chans[1].sent = << >>
    /\ chans[2].state = "registered" /\ chans[2].rxOpen /\ chans[2].sent = <<1>>
    /\ HasEntry("A") /\ event_streams["A"] = <<1, 2>>

\* C20 (as stated): once the loop of a conversation holds the terminal
\* event, or reading the event stream failed, the loop ends
C20_TerminalEventEndsLoop ==
    \A c \in Convs :
        (pev[c].shutdown \/ ppc[c] = "final_wait") ~> (ppc[c] = "done")

\* what holds of the end of the loop: the step that ends it leaves the
\* conversation without entry, whoever is subscribed, and the loop does
\* not leave on the terminal event before the round that broadcasts it is
\* over
C20_FinalRemovesEntry ==
    [][\A c \in Convs :
         /\ (ppc[c] # "done" /\ ppc'[c] = "done") => ~(c \in DOMAIN event_streams')
         /\ (ppc[c] # "final_wait" /\ ppc'[c] = "final_wait") =>
               (ppc[c] = "next_event" \/ (RoundEnds(c) /\ pev[c].shutdown))]_vars

\* the producer loop of c is suspended awaiting its next event or in a send
Suspended(c) == ppc[c] \in {"next_event", "sending", "send_blocked"}

\* C21: the producer loop holds the registry lock only inside its three
\* critical sections: awaiting the next event or in a channel send it holds
\* no lock, and the step of a send is taken with the lock released
C21_NoLockAcrossSuspension ==
    /\ [](\A c \in Convs :
            /\ Suspended(c) => lock # ProducerHolder(c)
            /\ (lock = ProducerHolder(c)) <=>
                  (ppc[c] \in {"copy_locked", "prune_locked", "final_locked"}))
    /\ [][(\E k \in 1..MaxChans : chans'[k].sent # chans[k].sent)
            => lock.kind # "producer"]_vars

\* while the producer loop is suspended in a send to a full channel, a
\* stream_events handler holds the lock
C21_Witness ==
    /\ ppc["A"] = "send_blocked"
    /\ \E k \in 1..MaxChans : lock = SubscribeHolder(k) /\ chans[k].state = "locked"

\* C22: while the producer loop of one conversation is suspended (in a
\* send or awaiting its next event), the loop of another conversation that
\* is in a round or leaving can take its next step, unless it waits for its
\* own full subscriber or for a stream_events handler that holds the lock,
\* and such a handler can always register and release the lock
C22_NoCrossBlocking ==
    /\ \A a \in Convs : \A b \in Convs \ {a} :
          (/\ Suspended(a)
           /\ ppc[b] \in (InRound \cup {"final_wait", "final_locked"}) \ {"send_blocked"}
           /\ lock.kind # "stream_events")
          => ENABLED ProducerStep(b)
    /\ lock.kind = "stream_events" => ENABLED StreamEventsRegister(lock.chan)

\* A has been suspended in the send to its stalled subscriber all along,
\* and B has finished a round that gave its event to B's subscriber
C22_Witness ==
    /\ ppc["A"] = "send_blocked" /\ chans[1].rxOpen /\ chans[1].rcvd = 0
    /\ ppc["B"] = "next_event" /\ evCount["B"] = 1
    /\ chans[2].state = "registered" /\ chans[2].conv = "B"
    /\ chans[2].sent = <<1>>

(***************************************************************************)
(* Properties of refusal detection (RefusalSpec)                           *)
(***************************************************************************)
\* the lowercased text contains a phrase of the lexicon
HasIndicator(text) ==
    \E indicator \in REFUSAL_INDICATORS : contains(to_lowercase(text), indicator)

\* C23: is_refusal is false when had_tool_calls is true; otherwise false
\* when the text has 100 words or more; otherwise true exactly when the
\* lowercased text contains a phrase of the lexicon
C23_IsRefusal ==
    ret.tag = "bool" /\ call.fn = "is_refusal" =>
        /\ call.had_tool_calls => ~ret.val
        /\ (~call.had_tool_calls /\ split_whitespace_count(call.text) >= 100)
              => ~ret.val
        /\ (~call.had_tool_calls /\ split_whitespace_count(call.text) < 100)
              => (ret.val <=> HasIndicator(call.text))

\* a text of exactly 100 words that holds "sorry" is not a refusal
C23_Witness ==
    /\ ret.tag = "bool" /\ call.fn = "is_refusal" /\ ~call.had_tool_calls
    /\ split_whitespace_count(call.text) = 100
    /\ HasIndicator(call.text)
    /\ ~ret.val

(***************************************************************************)
(* Properties of provider fallback (TaskSpec)                              *)
(***************************************************************************)
\* C24: at most one fallback call sequence is started in a turn; once the
\* turn is at its fallback the provider in use does not change again, and
\* the return of the fallback call sequence, whatever it is, ends the turn
\* (the step meant is the runner's, not the raising of the cancel signal)
C24_FallbackAtMostOnce ==
    /\ [](fallbacks <= 1)
    /\ [](phase = "fallback" <=> fallbacks = 1)
    /\ [][phase = "fallback" => phase' = "fallback" /\ target' = target]_vars
    /\ [][(/\ task = "Running" /\ phase = "fallback" /\ rpc = "returned"
            /\ cancelRequested' = cancelRequested)
            => task' \in {"Completed", "Failed"}]_vars

\* the fallback call sequence itself ended with a rate-limit failure and
\* the turn failed without another fallback
C24_Witness ==
    /\ task = "Failed" /\ phase = "fallback" /\ fallbacks = 1
    /\ result.tag = "Err" /\ Is429(result.err)
    /\ fallbackEnabled /\ provider = "openai"

SetNonBlank(e, var) ==
    /\ e[var].kind = "text"
    /\ \E i \in 1..Len(e[var].text) : ~is_whitespace(e[var].text[i])

Constructed == "RefusalFallbackConfig::default"

\* C26: a RefusalFallbackConfig is constructed with enabled true exactly
\* when OPENROUTER_API_KEY is set and non-blank at that moment, and in every
\* constructed configuration the fallback provider is present exactly when
\* enabled is true.
C26_FallbackConfigConstruction ==
    /\ [][(call'.fn = Constructed /\ <<call', ret'>> # <<call, ret>>)
            => (ret'.enabled <=> SetNonBlank(env, "OPENROUTER_API_KEY"))]_vars
    /\ [](call.fn = Constructed => (ret.fallback_provider.some <=> ret.enabled))

\* C26 witness: with a variable holding only whitespace the configuration
\* is constructed disabled and without a provider
C26_Witness ==
    /\ call.fn = Constructed
    /\ env["OPENROUTER_API_KEY"] = Text(<<" ", "\t">>)
    /\ ~ret.enabled /\ ~ret.fallback_provider.some

HasOAuthAlternative(env_key) ==
    env_key.val \in {ANTHROPIC_API_KEY_ENV_VAR, ANTHROPIC_OAUTH_TOKEN_ENV_VAR}

Used(e, var) == OkKey(Some(trim(e[var].text)))

CredentialMissing(r) == r.tag = "Err" /\ r.err = "EnvVar"

\* C28: every api_key call of a definition that declares a variable answers
\* from the environment of that moment: with an OAuth-token alternative the
\* OAuth token when set and non-blank, else the plain API key when set and
\* non-blank, else CredentialMissing; without one the declared variable
\* when set and non-blank, else CredentialMissing.
C28_ResolveCredential ==
    [][(call'.fn = "api_key" /\ <<call', ret'>> # <<call, ret>>
        /\ call'.env_key.some)
        => LET k == call'.env_key
           IN  IF HasOAuthAlternative(k)
               THEN IF SetNonBlank(env, ANTHROPIC_OAUTH_TOKEN_ENV_VAR)
                    THEN ret' = Used(env, ANTHROPIC_OAUTH_TOKEN_ENV_VAR)
                    ELSE IF SetNonBlank(env, ANTHROPIC_API_KEY_ENV_VAR)
                    THEN ret' = Used(env, ANTHROPIC_API_KEY_ENV_VAR)
                    ELSE CredentialMissing(ret')
               ELSE IF SetNonBlank(env, k.val)
                    THEN ret' = Used(env, k.val)
                    ELSE CredentialMissing(ret')]_vars

\* C28 witness: the first call for the Anthropic definition failed, the
\* API key was then set while the OAuth token is blank, and the second call
\* returns the API key
C28_Witness ==
    /\ call.fn = "api_key"
    /\ call.env_key = Some(ANTHROPIC_API_KEY_ENV_VAR)
    /\ CredentialMissing(call.prev)
    /\ env[ANTHROPIC_OAUTH_TOKEN_ENV_VAR] = Text(<<" ", "\t">>)
    /\ env[ANTHROPIC_API_KEY_ENV_VAR] = Text(<<" ", "s", "k", "-", "b", "\n">>)
    /\ ret = OkKey(Some(<<"s", "k", "-", "b">>))

(***************************************************************************)
(* Properties of the effective retry limits (LimitsSpec)                   *)
(***************************************************************************)
\* C27: the effective request-retry count is min(configured or 100, 200),
\* the effective stream-reconnect count is min(configured or 60, 100), and
\* max_attempts of the retry configuration built for the provider is that
\* request-retry count, at most 200.
C27_EffectiveRetryLimits ==
    LET request == Min(IF call.request_max_retries.some
                       THEN call.request_max_retries.val ELSE 100, 200)
        stream == Min(IF call.stream_max_retries.some
                      THEN call.stream_max_retries.val ELSE 60, 100)
    IN  /\ ret.tag = "limits"
            => /\ ret.request_max_retries = request
               /\ ret.stream_max_retries = stream
        /\ ret.tag = "ApiProvider"
            => /\ ret.retry.max_attempts = request
               /\ ret.retry.max_attempts <= 200

\* C27 witness: a definition asking for one million request retries is
\* given a retry configuration of 200 attempts
C27_Witness ==
    /\ ret.tag = "ApiProvider"
    /\ call.request_max_retries = Some(1000000)
    /\ ret.retry.max_attempts = 200

(***************************************************************************)
(* Properties of a turn's credential (TurnSpec)                            *)
(***************************************************************************)
\* C29: a turn whose credential cannot be resolved ends with
\* CredentialMissing without a request having been built or issued and
\* without a retry sleep, and a request is issued only after the credential
\* was resolved.
C29_CredentialMissingBeforeNetwork ==
    /\ []((call.fn = "turn" /\ CredentialMissing(ret))
            => /\ issueCount = 0 /\ makeCount = 0 /\ sleepCount = 0
               /\ rpc = "idle" /\ result = NoResult)
    /\ [](issueCount > 0 => call.fn = "turn" /\ ret.tag = "Ok")
    /\ [][(call = NoCall /\ call'.fn = "turn" /\ call'.env_key.some
           /\ ~(IF HasOAuthAlternative(call'.env_key)
                THEN \/ SetNonBlank(env, ANTHROPIC_OAUTH_TOKEN_ENV_VAR)
                     \/ SetNonBlank(env, ANTHROPIC_API_KEY_ENV_VAR)
                ELSE SetNonBlank(env, call'.env_key.val)))
           => CredentialMissing(ret')]_vars

\* C29 witness: the policy allows retries, the declared variable holds only
\* whitespace, and the turn has failed with CredentialMissing
C29_Witness ==
    /\ call.fn = "turn"
    /\ call.env_key = Some("XAI_API_KEY")
    /\ env["XAI_API_KEY"] = Text(<<" ", "\t">>)
    /\ policy.max_attempts = MaxAttempts
    /\ CredentialMissing(ret)
    /\ issueCount = 0

(***************************************************************************)
(* Properties of the infinity command line client (CliSpec)                *)
(***************************************************************************)
\* C30: `infinity addons restore` without --yes hands no request to the HTTP
\* client, neither the add-on lookup GET nor the restore POST, and ends in
\* the error whose message asks to re-run with --yes.
C30_RestoreRequiresYes ==
    (cli.pc # "none" /\ ~cli.cmd.yes)
        => /\ wire = << >>
           /\ cli.pc \in {"run_addon_restore", "done"}
           /\ cli.pc = "run_addon_restore" => ENABLED RunAddonRestore
           /\ cli.pc = "done"
                => /\ cli.out.tag = "Err"
                   /\ contains(cli.out.msg, <<"R", "e", "-", "r", "u", "n", " ", "w", "i", "t", "h", " ", "-", "-", "y", "e", "s">>)

\* C30 witness: a restore command without --yes has failed
C30_Witness ==
    /\ cli.pc = "done"
    /\ ~cli.cmd.yes
    /\ cli.out.tag = "Err"
    /\ wire = << >>

(***************************************************************************)
(* Properties of `infinity addons` (AddonsSpec)                            *)
(***************************************************************************)
IsLookup(req) ==
    /\ req.method = <<"G", "E", "T">>
    /\ req.url = BaseUrl \o <<"/", "a", "p", "i", "/", "p", "r", "o", "j", "e", "c", "t", "s", "/">> \o cli.cmd.repo \o <<"/", "a", "d", "d", "o", "n", "s">>

\* C31: a command `infinity addons events` is accepted: it does not end
\* before the lookup of the add-on has been requested, and when it has
\* ended without error a second GET (the events of the add-on) was sent.
C31_EventsAccepted ==
    (cli.pc = "done" /\ cli.cmd.action = "events")
        => /\ wire # << >>
           /\ IsLookup(wire[1])
           /\ cli.out.tag = "Ok" => Len(wire) >= 2

\* The attempts made so far for the request get_json / post_json is running
Sent ==
    Cardinality({i \in 1..Len(wire) :
                    wire[i] = [method |-> cli.method, url |-> cli.url]})

Mentions(msg) ==
    \/ contains(msg, <<"t", "i", "m", "e", "o", "u", "t">>)
    \/ contains(msg, <<"c", "o", "n", "n", "e", "c", "t">>)
    \/ contains(msg, <<"c", "o", "n", "n", "e", "c", "t", "i", "o", "n">>)

RestorePosts == {i \in 1..Len(wire) : wire[i].method = <<"P", "O", "S", "T">>}

\* C40: a run of `infinity addons restore` hands at most one restore POST to
\* the HTTP client.
C40_RestorePostAtMostOnce == Cardinality(RestorePosts) <= 1

(***************************************************************************)
(* Properties of `infinity-tasks cancel` (CancelSpec)                      *)
(***************************************************************************)
\* The answer read is y or Y, surrounding whitespace apart
AnsweredYes ==
    cli.input.some /\ trim(cli.input.val) \in {<<"y">>, <<"Y">>}

\* C33: the backend is initialised and its delete called only when --force
\* was given or the answer to the prompt was y or Y; after any other answer
\* the command has ended successfully with no backend and no backend call.
C33_CancelNeedsConfirmation ==
    /\ (wire # << >> \/ cli.backend # "none" \/ cli.pc \in {"init_backend", "delete"})
          => (cli.cmd.force \/ AnsweredYes)
    /\ (~cli.cmd.force /\ cli.input.some /\ ~AnsweredYes)
          => /\ cli.pc = "done" /\ cli.out = OkOut("Cancelled")
             /\ cli.backend = "none" /\ wire = << >>

\* C33 witness: the answer yes is not a confirmation: the command has ended
\* with Cancelled and no backend
C33_Witness ==
    /\ ~cli.cmd.force
    /\ cli.input = Some(<<"y", "e", "s", "\n">>)
    /\ cli.pc = "done" /\ cli.out = OkOut("Cancelled")
    /\ cli.backend = "none" /\ wire = << >>

(***************************************************************************)
(* Delivery and isolation in the event broadcaster (Spec, TwoConvSpec)     *)
(***************************************************************************)
\* C34: no event is placed twice into a channel: what a channel was sent is
\* strictly increasing in the number of the event, and no sender is twice in
\* a list of the registry or in the list a round sends to.
C34_NoDoubleDelivery ==
    /\ \A k \in 1..MaxChans :
          \A i \in 1..Len(chans[k].sent) : \A j \in 1..Len(chans[k].sent) :
              i < j => chans[k].sent[i] < chans[k].sent[j]
    /\ \A c \in DOMAIN event_streams :
          \A i \in 1..Len(event_streams[c]) : \A j \in 1..Len(event_streams[c]) :
              i # j => event_streams[c][i] # event_streams[c][j]
    /\ \A c \in Convs :
          \A i \in 1..Len(psenders[c]) : \A j \in 1..Len(psenders[c]) :
              i # j => psenders[c][i] # psenders[c][j]

\* C34 witness: one subscriber was sent both events while another of the
\* same conversation had disconnected
C34_Witness ==
    \E k \in 1..MaxChans : \E m \in 1..MaxChans :
        /\ chans[k].sent = <<1, 2>>
        /\ m # k /\ chans[m].state = "registered" /\ IsClosed(m)

\* the entry of conversation c in the registry
EntryOf(c) == IF HasEntry(c) THEN event_streams[c] ELSE <<0>>

\* a step of the producer loop of c or of a stream_events handler for c
StepOf(c) ==
    \/ ppc'[c] # ppc[c]
    \/ \E k \in 1..MaxChans :
          /\ chans'[k].state # chans[k].state
          /\ chans'[k].conv = c

\* C35: the lists of a conversation hold only channels created for it, an
\* event put into a channel is the event the producer loop of the channel's
\* conversation is broadcasting, and a step of the producer loop or of a
\* subscribe of one conversation leaves the entry of every other
\* conversation as it was.
C35_ConversationIsolation ==
    /\ [](\A c \in Convs :
            /\ \A i \in 1..Len(psenders[c]) : chans[psenders[c][i]].conv = c
            /\ HasEntry(c) =>
                  \A i \in 1..Len(event_streams[c]) :
                      chans[event_streams[c][i]].conv = c)
    /\ [][\A k \in 1..MaxChans :
            chans'[k].sent # chans[k].sent
              => LET c == chans[k].conv
                 IN  /\ ppc[c] \in {"sending", "send_blocked"}
                     /\ Head(psenders[c]) = k
                     /\ chans'[k].sent = Append(chans[k].sent, pev[c].seq)
                     /\ \A d \in Convs \ {c} : ppc'[d] = ppc[d]]_vars
    /\ [][\A c \in Convs :
            StepOf(c) => \A d \in Convs \ {c} : EntryOf(d)' = EntryOf(d)]_vars

\* C35 witness: the loop of A has ended and removed the entry of A while B
\* keeps its subscriber
C35_Witness ==
    /\ ppc["A"] = "done" /\ ~HasEntry("A")
    /\ HasEntry("B") /\ event_streams["B"] = <<2>>

(***************************************************************************)
(* Pruning and live subscribers (Spec, FairSpec)                           *)
(***************************************************************************)
\* a step in which the producer loop of some conversation prunes its list
\* (the retain before the copy, or the one after the round)
PruneStep ==
    \E c \in Convs : /\ ppc[c] \in {"copy_locked", "prune_locked"}
                     /\ ppc'[c] # ppc[c]

\* the part of C36 about the registry: a prune removes no subscriber whose
\* channel is open, whenever it registered
C36_PruneKeepsOpen ==
    [][PruneStep =>
          \A k \in 1..MaxChans :
              (InRegistry(event_streams, k) /\ chans[k].rxOpen)
                  => InRegistry(event_streams', k)]_vars

\* a subscriber that registered during a round (the list was copied, the
\* prune that follows the round is about to run) and is open
C36_JoinedInRound ==
    \E k \in 1..MaxChans :
        /\ chans[k].state = "registered"
        /\ ppc[chans[k].conv] = "prune_locked"
        /\ InRegistry(event_streams, k) /\ chans[k].rxOpen
        /\ chans[k].regAt = evCount[chans[k].conv] /\ chans[k].sent = << >>

\* C36: a prune removes no subscriber whose channel is open, also not one
\* that registered while the round was in progress; and a subscriber that
\* keeps reading is sent every event produced after its registration, or
\* the producer loop has ended.
C36_PruningNeverDropsLive ==
    /\ C36_PruneKeepsOpen
    /\ \A k \in 2..MaxChans : \A n \in 1..MaxEvents :
          (chans[k].state = "registered" /\ chans[k].rxOpen
              /\ chans[k].regAt < n /\ evCount[chans[k].conv] >= n)
          ~> \/ \E i \in 1..Len(chans[k].sent) : chans[k].sent[i] = n
             \/ ~chans[k].rxOpen
             \/ ppc[chans[k].conv] = "done"

(***************************************************************************)
(* The end of a producer loop (Spec, FairSpec)                             *)
(***************************************************************************)
\* some Sender of channel k is alive: the one stream_events holds until it
\* has pushed it, the one in the registry, or a clone in the list a round
\* is sending to
SenderHeld(k) ==
    \/ chans[k].state \in {"lock_wait", "locked"}
    \/ InRegistry(event_streams, k)
    \/ \E c \in Convs : \E i \in 1..Len(psenders[c]) : psenders[c][i] = k

\* the receiver of k has taken all that was put into the channel and has
\* no sender left: its stream ends
EndOfStream(k) ==
    /\ chans[k].state = "registered" /\ chans[k].rxOpen
    /\ ~SenderHeld(k)
    /\ chans[k].rcvd = Len(chans[k].sent)

\* the producer loop of the conversation of k has left its loop while k
\* was registered
LoopEndedOn(k) ==
    /\ chans[k].state = "registered" /\ InRegistry(event_streams, k)
    /\ ppc[chans[k].conv] \in {"final_wait", "final_locked"}

\* C37: every subscriber in the registry when the producer loop ends loses
\* its last sender, with whatever was put into its channel still there to
\* be read first; one that keeps reading reaches the end of its stream
\* (or has gone away itself).
C37_ClosedAtLoopEnd ==
    /\ \A k \in 1..MaxChans : LoopEndedOn(k) ~> [](~SenderHeld(k))
    /\ \A k \in 2..MaxChans :
          LoopEndedOn(k) ~> (EndOfStream(k) \/ ~chans[k].rxOpen)
    /\ [][\A k \in 1..MaxChans :
            /\ Len(chans[k].sent) <= Len(chans'[k].sent)
            /\ \A i \in 1..Len(chans[k].sent) : chans'[k].sent[i] = chans[k].sent[i]
            /\ chans[k].rcvd <= chans'[k].rcvd]_vars

\* C37 witness: the loop has ended and a subscriber that was sent an event
\* has read it and is at the end of its stream
C37_Witness ==
    \E k \in 1..MaxChans :
        /\ EndOfStream(k) /\ chans[k].sent # << >>
        /\ ppc[chans[k].conv] = "done"

\* C38: once the producer loop of a conversation has ended, the registry
\* holds no entry for that conversation.
C38_NoEntryAfterLoopEnd ==
    \A c \in Convs : ppc[c] = "done" => ~HasEntry(c)

(***************************************************************************)
(* Progress of subscribe (FairSpec)                                        *)
(***************************************************************************)
\* C39: a stream_events handler that asks for the registry lock gets it and
\* registers its channel, also while a producer loop is suspended in a send
\* to a full channel; whoever holds the lock can take the step that
\* releases it, and a suspended producer loop does not hold it.
C39_SubscribeProgress ==
    /\ \A k \in 1..MaxChans :
          (chans[k].state = "lock_wait")
              ~> (chans[k].state = "registered" /\ InRegistry(event_streams, k))
    /\ [](/\ lock.kind = "producer" => ENABLED ProducerStep(lock.id)
          /\ lock.kind = "stream_events" => ENABLED StreamEventsRegister(lock.chan)
          /\ \A c \in Convs : ppc[c] = "send_blocked" => lock # ProducerHolder(c))

\* C39 witness: the producer loop is suspended in the send to subscriber 1,
\* whose channel is full, and subscriber 2 has registered during that round
C39_Witness ==
    /\ ppc["A"] = "send_blocked" /\ psenders["A"] = <<1>>
    /\ IsFull(1) /\ chans[1].rxOpen
    /\ chans[2].state = "registered" /\ chans[2].regAt = evCount["A"]
    /\ event_streams["A"] = <<1, 2>> /\ lock = NoHolder

====
